---- MODULE Spec2Model ----
(***************************************************************************)
(* Verification model of janmz/MySqlBackup.                                *)
(*                                                                         *)
(*   Spec     the archive writer of internal/backup (Run, recoverSavFiles, *)
(*            safeWriteZIPStreaming with its finish and cancel closures),  *)
(*            including process crashes and a following backup cycle.      *)
(*   SpecRet  the retention classifier and window pruner of                *)
(*            internal/retention (Classify, Apply).                        *)
(*   SpecSync the mirror step remote.Sync.                                 *)
(*   SpecCrypt the bytes uploadFile writes and getOneFile reads back.      *)
(*   SpecCycle one backup cycle of run.Backup: write, prune, remote copy.  *)
(*   SpecPipe restoreZip: the copier goroutine, the pipe and the import.   *)
(*   SpecUsers ParseUserSQL on bounded user exports.                       *)
(***************************************************************************)
EXTENDS Integers, Sequences, FiniteSets, TLC

VARIABLES
    \* ---- backup directory and the position of backup.Run ----
    fs,         \* per database: the file at <name>.zip and at <name>.sav
    pc,         \* position of Run: idle, stage, create, dump, block, finish, rmsav, done
    cycle,      \* number of Run invocations started so far
    idx,        \* index into dbs of the database being written
    frags,      \* databases for which ParseUserSQL returned a non-empty block
    todo,       \* io.WriteString calls of the user block still to be made
    created,    \* createdFiles, as returned by Run
    err,        \* whether Run returned a non-nil error
    faults,     \* failed calls and crashes so far
    \* ---- history of the writer (what happened, never read by the code) ----
    produced,   \* number of chunks the dump producer wrote for this database
    preZip,     \* file at the target path when the writer invocation started
    preSav,     \* file at the sidecar path when the writer invocation started
    wstate,     \* protocol state of the current writer invocation
    last,       \* how the last writer invocation ended
    committed,  \* per database: the archive committed in this cycle
    recPre,     \* the directory as recoverSavFiles found it
    recClean,   \* no filesystem operation of the last recoverSavFiles failed
    crash,      \* the last process crash: database and what was on disk
    \* ---- retention ----
    today,      \* calendar day of time.Now(), as a day number
    retain,     \* retainDaily, retainWeekly, retainMonthly, retainYearly
    dirst,      \* what os.ReadDir finds: "ok", "empty", "missing", "denied"
    files,      \* names in the directory: records [key, db, ext]
    kept,       \* the cutoff and keep-sets computed by the last Apply
    out,        \* lines of the last command: <<artifact, class>>
    warned,     \* artifacts the last Apply logged a failed os.Remove for
    rerr,       \* whether the last Apply returned a non-nil error
    rphase,     \* the last command: "init" (none yet), "status", "apply"
    \* ---- remote mirror ----
    sconf,      \* whether RemoteBackupDir and RemoteSSHHost are set
    encrypt,    \* whether remote_aes_password is set
    sloc,       \* local directory: per name the entry os.Stat reports
    srem,       \* remote directory: per name the entry ReadDir reports
    sup,        \* names the last Sync uploaded
    sdel,       \* names the last Sync removed from the remote directory
    swarn,      \* names the last Sync logged a failed remote removal for
    serr,       \* the error the last Sync returned, "none" for nil
    sphase,     \* "init" (no Sync yet) or "sync"
    \* the encrypted transfer of one file
    cplain,     \* the bytes of the local file that is uploaded
    cupass,     \* remote_aes_password when the file is uploaded
    cdpass,     \* remote_aes_password when the file is downloaded
    cremote,    \* the bytes of the remote file
    clocal,     \* the bytes getOneFile wrote to the local path
    cuerr,      \* uploadFile returned an error
    cgerr,      \* getOneFile returned an error
    cphase,     \* "init", "uploaded", "got"
    \* ---- one backup cycle of run.Backup ----
    ypc,        \* position of Backup: "start", "run", "written", "pruned", "done", "failed"
    yidx,       \* index into dbs of the database Run writes next
    yrunDay,    \* the day of time.Now() when Run formatted dateStr
    ynow,       \* the day of time.Now() in Apply
    yretain,    \* the four retention counts of the configuration
    yconf,      \* remote target: "off" (not configured) or "on"
    ylocal,     \* the backup directory: per name the entry os.Stat reports
    yremote,    \* the remote directory: per name the entry ReadDir reports
    ycreated,   \* createdFiles of Run
    ysteps,     \* the steps Backup has started, in order
    ylisted,    \* the names the remote step worked on
    yerr,       \* the error Backup returned, "none" for nil
    \* ---- restoreZip: the copier goroutine, the pipe and the import ----
    pmain,      \* position of restoreZip: "start", "import", "closepr", "recv", "done"
    pcopier,    \* position of the goroutine: "idle", "copy", "write", "blocked", "close", "send", "done"
    ptotal,     \* chunks of the .sql entry
    pleft,      \* chunks the goroutine has not yet written to the pipe
    ppipe,      \* "empty", or "data" while a pw.Write waits for its reader
    pwclosed,   \* write side: "open", "eof" (closed with nil), "err" (closed with an error)
    prclosed,   \* whether pr.Close was called
    pcopyRes,   \* what io.Copy returned: "nil", "closedpipe", "read"
    pchan,      \* the channel copyErr: "empty" or the value sent
    pimport,    \* importErr: "pending", "nil", "import" (the import failed), "stream" (its input failed)
    pconsumed,  \* chunks ImportSQL has read from the pipe
    pret,       \* what restoreZip returned: "none", "nil", "open", "import", "closedpipe", "read"
    \* ---- ParseUserSQL ----
    uin,        \* the user export: a sequence of lines
    uph,        \* "input" before the call, "done" after it
    uusers,     \* the records parseUserRecords built, by user name
    uout        \* what ParseUserSQL returned and what it reported through warn

bvars == <<fs, pc, cycle, idx, frags, todo, created, err, faults, produced, preZip,
           preSav, wstate, last, committed, recPre, recClean, crash>>
rvars == <<today, retain, dirst, files, kept, out, warned, rerr, rphase>>
svars == <<sconf, encrypt, sloc, srem, sup, sdel, swarn, serr, sphase>>
cvars == <<cplain, cupass, cdpass, cremote, clocal, cuerr, cgerr, cphase>>
yvars == <<ypc, yidx, yrunDay, ynow, yretain, yconf, ylocal, yremote, ycreated,
           ysteps, ylisted, yerr>>
pvars == <<pmain, pcopier, ptotal, pleft, ppipe, pwclosed, prclosed, pcopyRes, pchan,
           pimport, pconsumed, pret>>
uvars == <<uin, uph, uusers, uout>>
vars == <<bvars, rvars, svars, cvars, yvars, pvars, uvars>>

\* What the actions of one part of the model leave unchanged.
exceptWriter == <<rvars, svars, cvars, yvars, pvars, uvars>>
exceptRetention == <<bvars, svars, cvars, yvars, pvars, uvars>>
exceptSync == <<bvars, rvars, cvars, yvars, pvars, uvars>>
exceptCrypt == <<bvars, rvars, svars, yvars, pvars, uvars>>
exceptCycle == <<bvars, rvars, svars, cvars, pvars, uvars>>
exceptPipe == <<bvars, rvars, svars, cvars, yvars, uvars>>
exceptUsers == <<bvars, rvars, svars, cvars, yvars, pvars>>

-----------------------------------------------------------------------------
(* Bounds of the model.                                                    *)

MaxCycles == 2      \* Run invocations (backup cycles on one calendar day)
MaxDump == 1        \* chunks the dump producer writes for one database
MaxFaults == 2      \* failing steps (a failed call with its cleanup, a crash) in one behaviour

-----------------------------------------------------------------------------
(* The backup directory.                                                   *)

\* dbs, the database list passed to Run (two databases, written in order).
dbs == <<"db1", "db2">>
DBset == {dbs[i] : i \in 1..Len(dbs)}

NoFile == [exists |-> FALSE, gen |-> 0, entry |-> <<>>, complete |-> FALSE, size |-> 0]

\* The io.WriteString calls of Run for a database with a user block.
UserBlockWrites == <<"\n\n", "userBlock", "\n\nFLUSH PRIVILEGES;\n">>

RECURSIVE DumpBytes(_)
DumpBytes(n) == IF n = 0 THEN <<>> ELSE Append(DumpBytes(n - 1), "dump")

\* What Run writes into the entry of a database: the dump, then the user block.
EntryContent(n, hasBlock) ==
    DumpBytes(n) \o (IF hasBlock THEN UserBlockWrites ELSE <<>>)

\* A closed archive: the entry plus the central directory written by w.Close.
Archive(g, e) ==
    [exists |-> TRUE, gen |-> g, entry |-> e, complete |-> TRUE, size |-> Len(e) + 1]

\* The file os.Create leaves at the target path.
EmptyFile(g) ==
    [exists |-> TRUE, gen |-> g, entry |-> <<>>, complete |-> FALSE, size |-> 0]

\* One successful Write on the entry writer.
WriteTo(f, tok) == [f EXCEPT !.entry = Append(@, tok), !.size = @ + 1]

-----------------------------------------------------------------------------
(* recoverSavFiles.                                                        *)

\* Which filesystem call fails while one *.sav entry is handled.
RecModes == {"none", "statSav", "statZip", "remove", "rename"}

\* The mutant keeps the smaller of the two files.
RecoverEntryKeepSmaller(p, mode) ==
    IF ~p.sav.exists \/ mode = "statSav" \/ mode = "statZip" THEN p
    ELSE IF ~p.zip.exists
         THEN IF mode = "rename" THEN p ELSE [zip |-> p.sav, sav |-> NoFile]
    ELSE IF p.sav.size <= p.zip.size
         THEN IF mode = "remove" THEN p
              ELSE IF mode = "rename" THEN [zip |-> NoFile, sav |-> p.sav]
              ELSE [zip |-> p.sav, sav |-> NoFile]
    ELSE IF mode = "remove" THEN p ELSE [zip |-> p.zip, sav |-> NoFile]

\* The mutant copies a sidecar without a target to the target name and
\* leaves the sidecar where it is.
RecoverEntryCopyBack(p, mode) ==
    IF ~p.sav.exists \/ mode = "statSav" \/ mode = "statZip" THEN p
    ELSE IF ~p.zip.exists
         THEN IF mode = "rename" THEN p ELSE [zip |-> p.sav, sav |-> p.sav]
    ELSE IF p.sav.size >= p.zip.size
         THEN IF mode = "remove" THEN p
              ELSE IF mode = "rename" THEN [zip |-> NoFile, sav |-> p.sav]
              ELSE [zip |-> p.sav, sav |-> NoFile]
    ELSE IF mode = "remove" THEN p ELSE [zip |-> p.zip, sav |-> NoFile]

\* The loop body of recoverSavFiles for the pair (<base>.zip, <base>.sav).
RecoverEntry(p, mode) ==
    IF ~p.sav.exists THEN p                     \* no *.sav entry in the listing
    ELSE IF mode = "statSav" THEN p             \* errSav != nil: continue
    ELSE IF mode = "statZip" THEN p             \* errZip, not IsNotExist: continue
    ELSE IF ~p.zip.exists
         THEN IF mode = "rename" THEN p
              ELSE [zip |-> p.sav, sav |-> NoFile]
    ELSE IF p.sav.size >= p.zip.size
         THEN IF mode = "remove" THEN p         \* os.Remove(zipPath) failed
              ELSE IF mode = "rename" THEN [zip |-> NoFile, sav |-> p.sav]
              ELSE [zip |-> p.sav, sav |-> NoFile]
    ELSE IF mode = "remove" THEN p              \* os.Remove(savPath) failed
         ELSE [zip |-> p.zip, sav |-> NoFile]

recoverSavFiles(f, readOK, modes) ==
    IF ~readOK THEN f
    ELSE [d \in DBset |-> RecoverEntry(f[d], modes[d])]

-----------------------------------------------------------------------------
(* safeWriteZIPStreaming: cancel.                                          *)

\* cancel(): w.Close, f.Close, os.Remove(zipPath), and rename an existing
\* sidecar back. closed says whether the file is a closed archive when Remove
\* is called: the w.Close of cancel succeeded and wrote the central
\* directory, or the w.Close of finish() had done so. os.Rename replaces a
\* target that a failed Remove left behind.
cancel(f, d, closed, rmOK, renOK) ==
    LET f0 == IF closed
              THEN [f EXCEPT ![d].zip = [@ EXCEPT !.complete = TRUE, !.size = @ + 1]]
              ELSE f
        f1 == IF rmOK THEN [f0 EXCEPT ![d].zip = NoFile] ELSE f0
    IN  IF f1[d].sav.exists /\ renOK
        THEN [f1 EXCEPT ![d] = [zip |-> f1[d].sav, sav |-> NoFile]]
        ELSE f1

-----------------------------------------------------------------------------
(* backup.Run, one action per step between two points at which the         *)
(* process can be killed.                                                   *)

NoEvent == [kind |-> "none", db |-> "", cause |-> "none", cleanOK |-> TRUE]
NoCrash == [valid |-> FALSE, db |-> "", at |-> "", pre |-> NoFile, gen |-> 0]
NoPair == [zip |-> NoFile, sav |-> NoFile]

\* The databases ParseUserSQL returns a block for: none, or the first one.
UserBlockChoices == {{}, {dbs[1]}}

\* Archives that earlier runs of the program left in the directory.
EarlierArchives ==
    {NoFile} \cup {Archive(0, EntryContent(n, FALSE)) : n \in 0..MaxDump}

\* The writer before its first cycle; the directory is set by the specification.
WriterIdle ==
    /\ pc = "idle"
    /\ cycle = 0
    /\ idx = 1
    /\ frags = {}
    /\ todo = <<>>
    /\ created = <<>>
    /\ err = FALSE
    /\ faults = 0
    /\ produced = 0
    /\ preZip = NoFile
    /\ preSav = NoFile
    /\ wstate = "clean"
    /\ last = NoEvent
    /\ committed = [d \in DBset |-> NoFile]
    /\ recPre = [d \in DBset |-> NoPair]
    /\ recClean = FALSE
    /\ crash = NoCrash

BInit ==
    /\ fs \in [DBset -> {[zip |-> z, sav |-> NoFile] : z \in EarlierArchives}]
    /\ WriterIdle

\* This step fails: a call of it returns an error, or the process is killed.
Fault == faults < MaxFaults /\ faults' = faults + 1

\* Whether the call named by mode is made at all while the pair p is handled.
ModeApplies(p, mode) ==
    CASE mode = "none" -> TRUE
      [] mode = "statSav" -> p.sav.exists
      [] mode = "statZip" -> p.sav.exists
      [] mode = "remove" -> p.sav.exists /\ p.zip.exists
      [] mode = "rename" -> p.sav.exists /\ (~p.zip.exists \/ p.sav.size >= p.zip.size)

\* Every `return nil, fmt.Errorf(...)` of Run after a writer step failed.
ReturnErr(newfs, d, cause, cleanOK) ==
    /\ fs' = newfs
    /\ pc' = "done"
    /\ err' = TRUE
    /\ created' = <<>>
    /\ wstate' = "rolledback"
    /\ last' = [kind |-> "rolledback", db |-> d, cause |-> cause, cleanOK |-> cleanOK]
    /\ todo' = <<>>

\* A failed step of Run between os.Create and the end of finish(): cancel(), return.
\* rmOK and renOK say whether cancel's Remove and Rename succeed (Rename is
\* called only when the sidecar exists); closes holds the outcomes the
\* failed step leaves to the w.Close of cancel.
CancelAndReturn(d, cause, closes) ==
    \E closed \in closes, rmOK \in BOOLEAN, renOK \in BOOLEAN :
        /\ renOK \/ fs[d].sav.exists
        /\ Fault
        /\ ReturnErr(cancel(fs, d, closed, rmOK, renOK), d, cause, rmOK /\ renOK)

\* Run up to the loop: MkdirAll, recoverSavFiles, ParseUserSQL.
StartRun ==
    /\ UNCHANGED exceptWriter
    /\ pc \in {"idle", "done"}
    /\ cycle < MaxCycles
    /\ cycle' = cycle + 1
    /\ idx' = 1
    /\ todo' = <<>>
    /\ produced' = 0
    /\ preZip' = NoFile
    /\ preSav' = NoFile
    /\ wstate' = "clean"
    /\ last' = NoEvent
    /\ committed' = [d \in DBset |-> NoFile]
    /\ created' = <<>>
    /\ UNCHANGED crash
    /\ \/ /\ Fault                               \* os.MkdirAll fails
          /\ pc' = "done"
          /\ err' = TRUE
          /\ UNCHANGED <<fs, frags, recPre, recClean>>
       \/ \E readOK \in BOOLEAN, modes \in [DBset -> RecModes], fr \in UserBlockChoices :
            /\ \A d \in DBset :
                 modes[d] = "none" \/ (readOK /\ ModeApplies(fs[d], modes[d]))
            /\ IF readOK /\ \A d \in DBset : modes[d] = "none"
               THEN UNCHANGED faults ELSE Fault
            /\ fs' = recoverSavFiles(fs, readOK, modes)
            /\ recPre' = fs
            /\ recClean' = (readOK /\ \A d \in DBset : modes[d] = "none")
            /\ frags' = fr
            /\ err' = FALSE
            /\ pc' = "stage"

\* safeWriteZIPStreaming, step 1: when os.Stat(zipPath) returns no error,
\* rename the target to its sidecar. A Stat that fails on an existing target
\* skips the rename like a Stat of a missing one.
SafeWriteStage ==
    /\ UNCHANGED exceptWriter
    /\ pc = "stage"
    /\ LET d == dbs[idx] IN
       /\ preZip' = fs[d].zip
       /\ preSav' = fs[d].sav
       /\ produced' = 0
       /\ crash' = NoCrash
       /\ recPre' = [x \in DBset |-> NoPair]
       /\ recClean' = FALSE
       /\ IF fs[d].zip.exists
          THEN \/ /\ fs' = [fs EXCEPT ![d] = [zip |-> NoFile, sav |-> fs[d].zip]]
                  /\ pc' = "create"
                  /\ wstate' = "staged"
                  /\ UNCHANGED <<err, created, last, todo, faults>>
               \/ /\ Fault                       \* os.Rename(zipPath, savPath) fails
                  /\ ReturnErr(fs, d, "rename", TRUE)
               \/ /\ Fault                       \* os.Stat(zipPath) fails
                  /\ pc' = "create"
                  /\ wstate' = "staged"
                  /\ UNCHANGED <<fs, err, created, last, todo>>
          ELSE /\ pc' = "create"
               /\ wstate' = "staged"
               /\ UNCHANGED <<fs, err, created, last, todo, faults>>
    /\ UNCHANGED <<cycle, idx, frags, committed>>

\* safeWriteZIPStreaming, step 2: os.Create and zip.Writer.Create.
SafeWriteCreate ==
    /\ UNCHANGED exceptWriter
    /\ pc = "create"
    /\ LET d == dbs[idx] IN
       \/ /\ fs' = [fs EXCEPT ![d].zip = EmptyFile(cycle)]
          /\ pc' = "dump"
          /\ wstate' = "writing"
          /\ UNCHANGED <<err, created, last, todo, faults>>
       \/ \E renOK \in BOOLEAN :                 \* os.Create fails: no file was made
            /\ renOK \/ fs[d].sav.exists
            /\ Fault
            /\ ReturnErr(IF fs[d].sav.exists /\ renOK
                         THEN [fs EXCEPT ![d] = [zip |-> fs[d].sav, sav |-> NoFile]]
                         ELSE fs,
                         d, "create", renOK)
       \/ \E closed \in BOOLEAN, rmOK \in BOOLEAN, renOK \in BOOLEAN :
            /\ renOK \/ fs[d].sav.exists        \* w.Create(entryName) fails
            /\ Fault
            /\ ReturnErr(cancel([fs EXCEPT ![d].zip = EmptyFile(cycle)],
                                d, closed, rmOK, renOK),
                         d, "entry", rmOK /\ renOK)
    /\ UNCHANGED <<cycle, idx, frags, produced, preZip, preSav, committed,
                   recPre, recClean, crash>>

\* conn.DumpDatabase writes one chunk of the dump to the entry writer.
DumpChunk ==
    /\ UNCHANGED exceptWriter
    /\ pc = "dump"
    /\ produced < MaxDump
    /\ fs' = [fs EXCEPT ![dbs[idx]].zip = WriteTo(@, "dump")]
    /\ produced' = produced + 1
    /\ UNCHANGED <<pc, cycle, idx, frags, todo, created, err, faults, preZip, preSav,
                   wstate, last, committed, recPre, recClean, crash>>

\* The mutant writes the reload statement for every database.
UserBlockAlways(d, fr) == UserBlockWrites

\* The io.WriteString calls Run makes after the dump of database d.
UserBlock(d, fr) == IF d \in fr THEN UserBlockWrites ELSE <<>>

\* conn.DumpDatabase returns nil: Run goes on to the user block or to finish.
DumpDone ==
    /\ UNCHANGED exceptWriter
    /\ pc = "dump"
    /\ todo' = UserBlock(dbs[idx], frags)
    /\ pc' = IF todo' = <<>> THEN "finish" ELSE "block"
    /\ UNCHANGED <<fs, cycle, idx, frags, created, err, faults, produced, preZip,
                   preSav, wstate, last, committed, recPre, recClean, crash>>

\* conn.DumpDatabase returns an error: cancel() and return. After an error
\* of mysqldump the writer is intact and the w.Close of cancel can succeed;
\* after a failed Write it returns the error again.
DumpError ==
    /\ UNCHANGED exceptWriter
    /\ pc = "dump"
    /\ CancelAndReturn(dbs[idx], "dump", BOOLEAN)
    /\ UNCHANGED <<cycle, idx, frags, produced, preZip, preSav, committed,
                   recPre, recClean, crash>>

\* One io.WriteString of the user block; on an error cancel() and return,
\* and the w.Close of cancel returns the error of the failed Write.
WriteString ==
    /\ UNCHANGED exceptWriter
    /\ pc = "block"
    /\ \/ /\ fs' = [fs EXCEPT ![dbs[idx]].zip = WriteTo(@, Head(todo))]
          /\ todo' = Tail(todo)
          /\ pc' = IF Tail(todo) = <<>> THEN "finish" ELSE "block"
          /\ UNCHANGED <<err, created, wstate, last, faults>>
       \/ CancelAndReturn(dbs[idx], "block", {FALSE})
    /\ UNCHANGED <<cycle, idx, frags, produced, preZip, preSav, committed,
                   recPre, recClean, crash>>

\* finish(): w.Close and f.Close; on an error Run calls cancel() and returns.
\* When f.Close failed the archive is closed already; when w.Close failed the
\* w.Close of cancel fails as well.
FinishClose ==
    /\ UNCHANGED exceptWriter
    /\ pc = "finish"
    /\ \/ /\ fs' = [fs EXCEPT ![dbs[idx]].zip =
                       [@ EXCEPT !.complete = TRUE, !.size = @ + 1]]
          /\ pc' = "rmsav"
          /\ UNCHANGED <<err, created, wstate, last, todo, faults>>
       \/ CancelAndReturn(dbs[idx], "finish", BOOLEAN)
    /\ UNCHANGED <<cycle, idx, frags, produced, preZip, preSav, committed,
                   recPre, recClean, crash>>

\* The mutant of finish() never removes the sidecar.
finishRemoveSavNever(f, d, rmOK) == f

\* finish(), last statement: _ = os.Remove(savPath).
finishRemoveSav(f, d, rmOK) ==
    IF rmOK THEN [f EXCEPT ![d].sav = NoFile] ELSE f

\* finish() returned nil: createdFiles = append(createdFiles, zipPath), next db.
FinishCommit ==
    /\ UNCHANGED exceptWriter
    /\ pc = "rmsav"
    /\ LET d == dbs[idx] IN
       \E rmOK \in BOOLEAN :
         /\ rmOK \/ fs[d].sav.exists
         /\ IF rmOK THEN UNCHANGED faults ELSE Fault
         /\ fs' = finishRemoveSav(fs, d, rmOK)
         /\ created' = Append(created, d)
         /\ committed' = [committed EXCEPT ![d] = fs[d].zip]
         /\ wstate' = "committed"
         /\ last' = [kind |-> "committed", db |-> d, cause |-> "none", cleanOK |-> rmOK]
         /\ IF idx = Len(dbs)
            THEN pc' = "done" /\ idx' = idx
            ELSE pc' = "stage" /\ idx' = idx + 1
    /\ UNCHANGED <<cycle, frags, todo, err, produced, preZip, preSav,
                   recPre, recClean, crash>>

\* The process is killed while a writer invocation is under way.
Crash ==
    /\ UNCHANGED exceptWriter
    /\ pc \in {"create", "dump", "block", "finish", "rmsav"}
    /\ Fault
    /\ crash' = [valid |-> TRUE, db |-> dbs[idx], at |-> pc, pre |-> preZip, gen |-> cycle]
    /\ pc' = "idle"
    /\ todo' = <<>>
    /\ UNCHANGED <<fs, cycle, idx, frags, created, err, produced, preZip, preSav,
                   wstate, last, committed, recPre, recClean>>

Next ==
    \/ StartRun
    \/ SafeWriteStage
    \/ SafeWriteCreate
    \/ DumpChunk
    \/ DumpDone
    \/ DumpError
    \/ WriteString
    \/ FinishClose
    \/ FinishCommit
    \/ Crash

-----------------------------------------------------------------------------
(* Calendar arithmetic of package time, on day numbers (days since         *)
(* 1970-01-01) in the proleptic Gregorian calendar.                        *)

\* time.Date(y, m, d, 0, 0, 0, 0, loc) with Go's normalisation: a month outside
\* 1..12 carries into the year, a day outside the month carries into the months.
Date(y, m, d) ==
    LET yn  == y + ((m - 1) \div 12)
        mn  == ((m - 1) % 12) + 1
        ya  == IF mn <= 2 THEN yn - 1 ELSE yn
        era == ya \div 400
        yoe == ya - era * 400
        mp  == (mn + 9) % 12
        doy == ((153 * mp + 2) \div 5)
        doe == yoe * 365 + (yoe \div 4) - (yoe \div 100) + doy
    IN  era * 146097 + doe - 719468 + (d - 1)

\* t.Year(), t.Month(), t.Day() of a day number, computed.
CivilOf(z) ==
    LET zz  == z + 719468
        era == zz \div 146097
        doe == zz - era * 146097
        yoe == (doe - (doe \div 1460) + (doe \div 36524) - (doe \div 146096)) \div 365
        doy == doe - (365 * yoe + (yoe \div 4) - (yoe \div 100))
        mp  == (5 * doy + 2) \div 153
        dd  == doy - ((153 * mp + 2) \div 5) + 1
        mm  == IF mp < 10 THEN mp + 3 ELSE mp - 9
    IN  [year |-> yoe + era * 400 + (IF mm <= 2 THEN 1 ELSE 0), month |-> mm, day |-> dd]

\* The same for the days 2019-01-01 .. 2026-12-31, computed once.
TableFirst == Date(2019, 1, 1)
TableLast == Date(2026, 12, 31)
CivilTable == [z \in TableFirst..TableLast |-> CivilOf(z)]

\* t.Year(), t.Month(), t.Day() of a day number.
Civil(z) == IF z >= TableFirst /\ z <= TableLast THEN CivilTable[z] ELSE CivilOf(z)

Year(z) == Civil(z).year
Month(z) == Civil(z).month
Day(z) == Civil(z).day

\* t.Weekday(): 0 is time.Sunday; 1970-01-01 was a Thursday.
Weekday(z) == (z + 4) % 7
Sunday == 0

\* t.AddDate(years, months, days).
AddDate(z, years, months, days) ==
    Date(Year(z) + years, Month(z) + months, Day(z) + days)

\* t.Format("20060102"), read as the number YYYYMMDD.
dateKey(z) == Year(z) * 10000 + Month(z) * 100 + Day(z)

\* time.ParseInLocation("20060102", s, time.Local) on a name's eight digits:
\* the day number t, which is negative for a date before 1970, or err when the
\* digits are no calendar date (month or day out of range).
ParseDate(k) ==
    LET y == k \div 10000
        m == (k \div 100) % 100
        d == k % 100
        z == Date(y, m, d)
    IN  IF m >= 1 /\ m <= 12 /\ d >= 1 /\ dateKey(z) = k
        THEN [err |-> FALSE, t |-> z]
        ELSE [err |-> TRUE, t |-> 0]

-----------------------------------------------------------------------------
(* Package retention.                                                      *)

isLastDayOfMonth(z) == Month(AddDate(z, 0, 0, 1)) /= Month(z)

\* The mutant tests the Sunday before the month end.
ClassifyWeeklyFirst(z) ==
    IF Month(z) = 12 /\ Day(z) = 31 THEN "yearly"
    ELSE IF Weekday(z) = Sunday THEN "weekly"
    ELSE IF isLastDayOfMonth(z) THEN "monthly"
    ELSE "daily"

Classify(z) ==
    IF Month(z) = 12 /\ Day(z) = 31 THEN "yearly"
    ELSE IF isLastDayOfMonth(z) THEN "monthly"
    ELSE IF Weekday(z) = Sunday THEN "weekly"
    ELSE "daily"

\* A name of the directory is kept as [key, db, ext]: key is the number read
\* from the eight digits of a name mysql_backup_<8 digits>_<rest>, or -1 when
\* the name does not start that way (the regular expression does not match);
\* ext is filepath.Ext without the dot.
MatchesBackupPrefix(name) == name.key >= 0

\* ListBackups: the names of the directory that match the expression, end in
\* .zip and carry a calendar date, each with its parsed date.  The result is
\* sorted by date; Apply and the status display treat every element on its
\* own, so it is kept as a set.
ListBackups(dir) ==
    LET parsed == {[name |-> n, res |-> ParseDate(n.key)] :
                      n \in {f \in dir : MatchesBackupPrefix(f) /\ f.ext = "zip"}}
    IN  {[name |-> p.name, date |-> p.res.t] : p \in {q \in parsed : ~q.res.err}}

\* Apply: lastSunday, the last Sunday on or before today.
RECURSIVE LastSunday(_)
LastSunday(z) == IF Weekday(z) = Sunday THEN z ELSE LastSunday(AddDate(z, 0, 0, -1))

\* Apply: the loop filling keepSundays, from iteration i on.
RECURSIVE KeepSundays(_, _, _)
KeepSundays(lastSunday, i, retainWeekly) ==
    IF i >= retainWeekly THEN {}
    ELSE LET sunday == AddDate(lastSunday, 0, 0, 7 * i)
         IN  {dateKey(sunday)} \cup
             (IF Year(sunday) < 2000 THEN {}
              ELSE KeepSundays(lastSunday, i + 1, retainWeekly))

\* Apply: the loop filling keepMonthEnds, from month m and count on.
RECURSIVE KeepMonthEnds(_, _, _)
KeepMonthEnds(m, count, retainMonthly) ==
    IF count >= retainMonthly THEN {}
    ELSE LET firstOfNextMonth == AddDate(Date(Year(m), Month(m), 1), 0, 1, 0)
             monthEnd == AddDate(firstOfNextMonth, 0, 0, -1)
         IN  {dateKey(monthEnd)} \cup
             (IF Year(monthEnd) < 2000 THEN {}
              ELSE KeepMonthEnds(AddDate(m, 0, -1, 0), count + 1, retainMonthly))

\* Apply: the loop filling keepYearEnds, from year y and count on.
RECURSIVE KeepYearEnds(_, _, _)
KeepYearEnds(y, count, retainYearly) ==
    IF count < retainYearly /\ y >= 2000
    THEN {dateKey(Date(y, 12, 31))} \cup KeepYearEnds(y - 1, count + 1, retainYearly)
    ELSE {}

\* Apply: everything computed from now and the four counts before the file loop.
KeepSets(now, r) ==
    [dailyCutoff |-> AddDate(now, 0, 0, -r.daily),
     sundays     |-> KeepSundays(LastSunday(now), 0, r.weekly),
     monthEnds   |-> KeepMonthEnds(now, 0, r.monthly),
     yearEnds    |-> KeepYearEnds(Year(now), 0, r.yearly)]

\* The mutant leaves the daily window out of the keep decision.
KeepWithoutDailyWindow(f, k) ==
    \E key \in {dateKey(f.date)} :
        key \in k.sundays \/ key \in k.monthEnds \/ key \in k.yearEnds

\* Apply: the keep decision of the file loop for one BackupFile.
Keep(f, k) ==
    \E key \in {dateKey(f.date)} :
        \/ ~(f.date < k.dailyCutoff)
        \/ key \in k.sundays
        \/ key \in k.monthEnds
        \/ key \in k.yearEnds

-----------------------------------------------------------------------------
(* The retention commands on one directory.                                *)

NumDays == 73           \* calendar days from which `now` is drawn
MaxAge == 33            \* the directory holds an artifact for each of the last MaxAge days
MaxRetain == 2          \* largest retainWeekly, retainMonthly, retainYearly
TestRetainDaily == 14   \* retainDaily of TestApplyRetentionByDateWindow

\* The first `now`: 19 January 2024.  The range ends on Sunday 31 March 2024 and
\* holds a 29 February and two 31sts; the directories reach back to Sunday
\* 31 December 2023.
FirstDay == Date(2024, 1, 19)
TodayRange == FirstDay..(FirstDay + NumDays - 1)
RetainDailyValues == {0, TestRetainDaily}

NoKeepSets == [dailyCutoff |-> 0, sundays |-> {}, monthEnds |-> {}, yearEnds |-> {}]

\* An artifact mysql_backup_<key>_<host>_<db>.zip.
Artifact(z, d) == [key |-> dateKey(z), db |-> d, ext |-> "zip"]

\* Names that are no artifacts: a file of another program, the sidecar of an
\* archive, and an archive name whose eight digits are no calendar date.
OtherName == [key |-> -1, db |-> "notes", ext |-> "txt"]
SidecarName(z, d) == [key |-> dateKey(z), db |-> d, ext |-> "sav"]
BadDateName(d) == [key |-> 20240231, db |-> d, ext |-> "zip"]

\* The directory before the first command: an artifact of each database for
\* each of the last MaxAge days, one artifact dated tomorrow, and the names
\* that are no artifacts; nothing in an empty or missing directory; one old
\* artifact in a directory that cannot be read.
InitialFiles(now, st) ==
    CASE st = "ok" ->
           {Artifact(z, d) : z \in (now - MaxAge)..now, d \in DBset}
             \cup {Artifact(now + 1, dbs[1])}
             \cup {OtherName, SidecarName(now - MaxAge, dbs[1]), BadDateName(dbs[1])}
      [] st = "denied" -> {Artifact(now - MaxAge, dbs[1])}
      [] OTHER -> {}

RInit ==
    /\ today \in TodayRange
    /\ retain \in [daily : RetainDailyValues, weekly : 0..MaxRetain,
                   monthly : 0..MaxRetain, yearly : 0..MaxRetain]
    /\ dirst \in {"ok", "empty", "missing", "denied"}
    /\ files = InitialFiles(today, dirst)
    /\ kept = NoKeepSets
    /\ out = {}
    /\ warned = {}
    /\ rerr = FALSE
    /\ rphase = "init"

\* The specification of the writer leaves the retention state alone.
RetentionIdle ==
    /\ today = FirstDay
    /\ retain = [daily |-> 0, weekly |-> 0, monthly |-> 0, yearly |-> 0]
    /\ dirst = "empty"
    /\ files = {}
    /\ kept = NoKeepSets
    /\ out = {}
    /\ warned = {}
    /\ rerr = FALSE
    /\ rphase = "init"

\* The status display of main: every listed backup with its class; nothing is
\* listed when ListBackups returns an error.
ShowStatus ==
    /\ UNCHANGED exceptRetention
    /\ rphase' = "status"
    /\ out' = IF dirst = "denied" THEN {}
              ELSE {<<f.name, Classify(f.date)>> : f \in ListBackups(files)}
    /\ UNCHANGED <<today, retain, dirst, files, kept, warned, rerr>>

\* The mutant takes the artifacts of the oldest date not kept only.
DueOldestDate(list, k) ==
    {f \in list : ~Keep(f, k) /\ \A g \in list : Keep(g, k) \/ g.date >= f.date}

\* Apply, file loop: the files of the listing that are not kept.
Due(list, k) == {f \in list : ~Keep(f, k)}

\* The mutant stops the file loop at the first failed os.Remove.
RemovedUntilFailure(due, locked) ==
    {f \in due : \A g \in due : g.date <= f.date => g.name.db \notin locked}

\* Apply, file loop: the files of due for which os.Remove succeeds; it fails
\* for the artifacts of the databases in locked.
Removed(due, locked) == {f \in due : f.name.db \notin locked}

\* Apply, file loop: the files of due for which os.Remove fails and log.Warn
\* is called.
Warned(due, locked) == {f \in due : f.name.db \in locked}

\* retention.Apply.
Apply ==
    /\ UNCHANGED exceptRetention
    /\ IF dirst = "denied"
       THEN /\ rerr' = TRUE                      \* ListBackups returned an error
            /\ out' = {}
            /\ warned' = {}
            /\ UNCHANGED <<files, kept>>
       ELSE /\ rerr' = FALSE
            /\ \E list \in {ListBackups(files)} :
                 IF list = {}
                 THEN /\ out' = {}
                      /\ warned' = {}
                      /\ UNCHANGED <<files, kept>>
                 ELSE \E k \in {KeepSets(today, retain)} :
                      \E due \in {Due(list, k)} :
                      \E locked \in {{}, {dbs[Len(dbs)]}} :
                      \E removed \in {Removed(due, locked)} :
                        /\ files' = files \ {f.name : f \in removed}
                        /\ kept' = k
                        /\ out' = {<<f.name, Classify(f.date)>> : f \in removed}
                        /\ warned' = {f.name : f \in Warned(due, locked)}
    /\ rphase' = "apply"
    /\ UNCHANGED <<today, retain, dirst>>

NextRet ==
    \/ ShowStatus
    \/ Apply

-----------------------------------------------------------------------------
(* Package remote: Sync.                                                   *)

MaxMTime == 1           \* latest modification time of a local file
ArchiveSize == 1        \* size of a local archive
saltLen == 16
nonceLen == 16
encryptionOverhead == 32

\* The modification times the server may give an entry written in a Sync:
\* uploadFile does not set the time of the remote file, so it is the server's
\* time of the write, which is before the modification time of every local
\* file (a lagging clock, times cut to whole seconds) or after it.
ServerTimes == {0, MaxMTime + 1}

NoEntry == [exists |-> FALSE, mtime |-> 0, size |-> 0]
Entry(t, sz) == [exists |-> TRUE, mtime |-> t, size |-> sz]

\* The names of the two directories, in the order os.ReadDir returns them.
SyncNames ==
    <<Artifact(FirstDay - 1, dbs[1]), SidecarName(FirstDay, dbs[1]),
      Artifact(FirstDay, dbs[1]), Artifact(FirstDay, dbs[2]),
      BadDateName(dbs[1]), OtherName>>
SyncNameSet == {SyncNames[i] : i \in 1..Len(SyncNames)}
SyncArtifacts == {SyncNames[1], SyncNames[3], SyncNames[4]}
\* The artifacts the local directory may hold; the last one is of a database
\* that is no longer backed up, so only the remote directory may hold it.
LocalArtifacts == {SyncNames[1], SyncNames[3]}
Position(n) == CHOOSE i \in 1..Len(SyncNames) : SyncNames[i] = n

\* The times of the entries written in one run, for the names written in
\* the order of the listing: a later write has no earlier time.
UploadTimes(names) ==
    {st \in [names -> ServerTimes] :
        \A a, b \in names : Position(a) < Position(b) => st[a] <= st[b]}

\* backupZipRe: ^mysql_backup_\d{8}_.*\.zip$
backupZipRe(n) == MatchesBackupPrefix(n) /\ n.ext = "zip"

\* listLocalBackups: the names of the local directory Sync works on.
listLocalBackups(dir) ==
    {n \in DOMAIN dir : dir[n].exists /\ n.ext = "zip" /\ backupZipRe(n)}

\* listRemote: the names of the remote directory Sync works on.
listRemote(dir) ==
    {n \in DOMAIN dir : dir[n].exists /\ n.ext = "zip" /\ backupZipRe(n)}

\* The mutant leaves the size comparison out.
needUploadByTimeOnly(loc, rem, enc) == ~rem.exists \/ loc.mtime > rem.mtime

\* Sync, upload loop: needUpload for a local entry and the remote entry of its name.
needUpload(loc, rem, enc) ==
    \/ ~rem.exists \/ loc.mtime > rem.mtime
    \/ (enc /\ rem.exists /\ rem.size /= loc.size + encryptionOverhead)

\* uploadFile: the remote entry a complete upload leaves, written at the
\* server's time t.
uploadFile(loc, enc, t) ==
    Entry(t, IF enc THEN loc.size + encryptionOverhead ELSE loc.size)

\* The calls of uploadFile that can return an error: os.Open, client.Create,
\* and io.Copy; with encryption also the steps up to the Write of the salt
\* ("salt") and the Write of the nonce ("nonce").
UploadFailures(enc) ==
    {"open", "create", "copy"} \cup (IF enc THEN {"salt", "nonce"} ELSE {})

\* The bytes of the payload a failed io.Copy may have written before.
PartialCopies(loc, how) == IF how = "copy" THEN 0..(loc.size - 1) ELSE {0}

\* The remote entry an upload leaves that failed after client.Create: what
\* was written before the failing call, w bytes of the payload after salt
\* and nonce when the copy fails, written at the server's time t.
PartialUpload(loc, enc, how, w, t) ==
    Entry(t,
          CASE how = "salt" -> 0
            [] how = "nonce" -> saltLen
            [] OTHER -> (IF enc THEN encryptionOverhead ELSE 0) + w)

\* What uploadFile leaves at the remote name when the call how fails.
afterFailedUpload(old, loc, enc, how, w, t) ==
    IF how \in {"open", "create"} THEN old ELSE PartialUpload(loc, enc, how, w, t)

\* The mutant removes a remote entry unless it was uploaded in this run.
toRemoveUnlessUploaded(localList, remoteList, uploads) == remoteList \ uploads

\* Sync, deletion loop: the remote entries without a local entry of the name.
toRemove(localList, remoteList, uploads) == remoteList \ localList

\* The mutant runs the deletion loop although an upload returned an error.
deletionLoopAfterAbort(localList, remoteList, uploadErr) ==
    toRemove(localList, remoteList, {})

\* Sync: the entries the deletion loop visits for removal; the loop follows
\* the upload loop and is not reached when an upload returned an error.
deletionLoop(localList, remoteList, uploadErr) ==
    IF uploadErr THEN {} ELSE toRemove(localList, remoteList, {})

\* The mutant ends the deletion loop at the first failed removal.
removedUntilFailure(dels, rmfail) ==
    {n \in dels : \A m \in dels : Position(m) <= Position(n) => m \notin rmfail}

\* Sync, deletion loop: the entries sftpClient.Remove succeeds for.
removedRemote(dels, rmfail) == dels \ rmfail

\* Sync, deletion loop: the entries log.Warn is called for.
warnedRemote(dels, rmfail) == dels \cap rmfail

SInit ==
    /\ sconf \in BOOLEAN
    /\ encrypt \in (IF sconf THEN BOOLEAN ELSE {FALSE})
    /\ \E la \in [LocalArtifacts -> {NoEntry} \cup {Entry(t, ArchiveSize) : t \in 1..MaxMTime}],
          lb \in {NoEntry, Entry(1, ArchiveSize)} :
         sloc = [n \in SyncNameSet |->
                   IF n \in LocalArtifacts THEN la[n]
                   ELSE IF n = BadDateName(dbs[1]) THEN lb
                   ELSE IF n = OtherName THEN Entry(1, ArchiveSize)
                   ELSE NoEntry]
    /\ \E ra \in [LocalArtifacts -> {NoEntry} \cup
                       {Entry(t, sz) : t \in 0..MaxMTime,
                                       sz \in {ArchiveSize, ArchiveSize + encryptionOverhead}}],
          rb \in {NoEntry, Entry(1, ArchiveSize)},
          rc \in {NoEntry, Entry(1, ArchiveSize)} :
         srem = [n \in SyncNameSet |->
                   IF n \in LocalArtifacts THEN ra[n]
                   ELSE IF n \in SyncArtifacts THEN rc
                   ELSE IF n = BadDateName(dbs[1]) THEN rb
                   ELSE IF n = OtherName THEN NoEntry
                   ELSE Entry(1, ArchiveSize)]
    /\ sup = {}
    /\ sdel = {}
    /\ swarn = {}
    /\ serr = "none"
    /\ sphase = "init"

\* The specifications of the writer and of retention leave the mirror alone.
SyncIdle ==
    /\ sconf = FALSE
    /\ encrypt = FALSE
    /\ sloc = [n \in SyncNameSet |-> NoEntry]
    /\ srem = [n \in SyncNameSet |-> NoEntry]
    /\ sup = {}
    /\ sdel = {}
    /\ swarn = {}
    /\ serr = "none"
    /\ sphase = "init"

\* The names Sync uploads when no upload fails, in a run with these listings.
Uploads(localList) ==
    {n \in localList : needUpload(sloc[n], srem[n], encrypt)}

\* remote.Sync.
Sync ==
    /\ UNCHANGED exceptSync
    /\ sphase' = "sync"
    /\ UNCHANGED <<sconf, encrypt, sloc>>
    /\ \/ /\ ~sconf                               \* remote not configured: return nil
          /\ serr' = "none"
          /\ sup' = {} /\ sdel' = {} /\ swarn' = {}
          /\ UNCHANGED srem
       \/ /\ sconf                                \* an error before the upload loop
          /\ serr' \in {"list_local", "ssh_dial", "sftp", "list_remote"}
          /\ sup' = {} /\ sdel' = {} /\ swarn' = {}
          /\ UNCHANGED srem
       \/ /\ sconf                                \* uploadFile fails for the name bad
          /\ \E localList \in {listLocalBackups(sloc)} :
             \E bad \in Uploads(localList), how \in UploadFailures(encrypt) :
             \E w \in PartialCopies(sloc[bad], how) :
             \E done \in {{n \in Uploads(localList) : Position(n) < Position(bad)}} :
             \E dels \in {deletionLoop(localList, listRemote(srem), TRUE)} :
             \E st \in UploadTimes(done) :
             \E tb \in IF how \in {"open", "create"} THEN {0}
                       ELSE {t \in ServerTimes : \A n \in done : st[n] <= t} :
               /\ serr' = "upload"
               /\ sup' = done
               /\ sdel' = dels /\ swarn' = {}
               /\ srem' = [n \in SyncNameSet |->
                             IF n \in done THEN uploadFile(sloc[n], encrypt, st[n])
                             ELSE IF n = bad
                             THEN afterFailedUpload(srem[n], sloc[n], encrypt, how, w, tb)
                             ELSE IF n \in dels THEN NoEntry
                             ELSE srem[n]]
       \/ /\ sconf                                \* both loops run to their end
          /\ \E localList \in {listLocalBackups(sloc)}, remoteList \in {listRemote(srem)} :
             \E ups \in {Uploads(localList)} :
             \E dels \in {deletionLoop(localList, remoteList, FALSE)} :
             \E rmfail \in {{}} \cup {{n} : n \in dels} :
             \E gone \in {removedRemote(dels, rmfail)} :
             \E st \in UploadTimes(ups) :
               /\ serr' = "none"
               /\ sup' = ups
               /\ sdel' = gone
               /\ swarn' = warnedRemote(dels, rmfail)
               /\ srem' = [n \in SyncNameSet |->
                             IF n \in ups THEN uploadFile(sloc[n], encrypt, st[n])
                             ELSE IF n \in gone THEN NoEntry
                             ELSE srem[n]]

NextSync == Sync

-----------------------------------------------------------------------------
(* Package remote: streamEncryptUpload and getOneFile.                     *)

MaxPayload == 2         \* length of the payloads that are no archives

ByteP == 80             \* 'P'
ByteK == 75             \* 'K'

\* a XOR b on n bits.
RECURSIVE XorBits(_, _, _)
XorBits(a, b, n) ==
    IF n = 0 THEN 0
    ELSE (((a % 2) + (b % 2)) % 2) + 2 * XorBits(a \div 2, b \div 2, n - 1)

Xor(a, b) == XorBits(a, b, 8)

\* strings.TrimSpace of the configured password.
TrimSpace(pw) == IF pw = " " THEN "" ELSE pw

PasswordValues == {"", " ", "alpha", "beta"}

\* The sequences over a set of bytes of length up to n.
RECURSIVE SeqsUpTo(_, _)
SeqsUpTo(S, n) ==
    IF n = 0 THEN {<<>>}
    ELSE LET shorter == SeqsUpTo(S, n - 1)
         IN  shorter \cup {Append(q, b) : q \in {x \in shorter : Len(x) = n - 1}, b \in S}

\* A file that starts with the signature of a ZIP container, of len bytes.
ZipBytes(len) ==
    [i \in 1..len |-> IF i = 1 THEN ByteP ELSE IF i = 2 THEN ByteK
                       ELSE IF i = 3 THEN 3 ELSE IF i = 4 THEN 4 ELSE i % 7]

\* The payloads: short byte strings, an archive, and the empty archive, whose
\* 22 bytes are fewer than the header getOneFile reads.
Payloads ==
    SeqsUpTo({0, ByteP, ByteK}, MaxPayload)
        \cup {ZipBytes(saltLen + nonceLen + 8), ZipBytes(22)}

\* rand.Read(salt), rand.Read(nonce): every value is possible; the model
\* draws the first two and the last two bytes of the salt and one byte value
\* for the nonce.
Salts ==
    [k \in 1..8 |->
        [i \in 1..saltLen |->
            IF i = 1 THEN (IF k <= 4 THEN ByteP ELSE 17)
            ELSE IF i = 2 THEN (IF ((k - 1) \div 2) % 2 = 0 THEN ByteK ELSE 200)
            ELSE IF i = saltLen - 1 THEN (IF k % 2 = 1 THEN 0 ELSE 2)
            ELSE IF i = saltLen THEN (IF k % 2 = 1 THEN 0 ELSE 19)
            ELSE 0]]
Nonces == [k \in 1..2 |-> [i \in 1..nonceLen |-> IF k = 1 THEN 0 ELSE 255]]

\* pbkdf2.Key(password, salt, pbkdf2Iter, aesKeyLen, sha256.New) for the
\* passwords alpha and beta (in this order) and the salts of the model: the
\* 32 bytes PBKDF2-HMAC-SHA256 computes with 100000 iterations.
DerivedKeys ==
  <<
     <<
        <<114, 71, 155, 149, 52, 3, 212, 116, 30, 139, 222, 190, 182, 83, 126, 2, 96, 113,
          83, 253, 55, 124, 40, 126, 40, 89, 230, 130, 112, 200, 241, 130>>,
        <<70, 114, 217, 88, 207, 159, 11, 103, 69, 74, 96, 51, 135, 156, 0, 199, 123, 237,
          223, 54, 39, 67, 222, 7, 145, 86, 208, 193, 196, 39, 202, 231>>,
        <<110, 101, 28, 92, 192, 217, 58, 240, 42, 148, 228, 56, 121, 13, 179, 94, 255,
          179, 194, 253, 100, 238, 86, 103, 64, 192, 7, 185, 241, 37, 180, 55>>,
        <<130, 118, 12, 7, 104, 254, 224, 225, 160, 203, 53, 202, 100, 204, 71, 223, 101,
          218, 212, 168, 94, 150, 189, 146, 145, 152, 15, 30, 218, 106, 85, 16>>,
        <<92, 141, 131, 202, 170, 4, 137, 131, 219, 160, 58, 110, 66, 57, 92, 158, 133,
          114, 131, 117, 61, 186, 60, 193, 200, 34, 1, 10, 60, 71, 186, 51>>,
        <<158, 183, 23, 71, 168, 45, 35, 10, 92, 160, 135, 111, 104, 231, 40, 245, 4, 107,
          61, 173, 124, 145, 220, 215, 254, 235, 41, 10, 91, 66, 49, 115>>,
        <<76, 123, 152, 161, 89, 34, 27, 117, 223, 217, 91, 55, 182, 186, 204, 80, 46, 227,
          44, 181, 29, 233, 98, 180, 163, 44, 152, 36, 231, 233, 97, 146>>,
        <<121, 79, 85, 72, 239, 161, 210, 84, 0, 40, 61, 187, 246, 162, 40, 167, 103, 214,
          246, 170, 75, 200, 223, 59, 170, 214, 226, 225, 227, 81, 253, 159>>
     >>,
     <<
        <<80, 127, 64, 140, 39, 171, 60, 220, 226, 182, 144, 36, 155, 175, 71, 218, 183,
          140, 14, 57, 7, 177, 54, 183, 44, 232, 77, 155, 166, 183, 191, 101>>,
        <<29, 41, 54, 230, 87, 137, 168, 78, 178, 124, 7, 219, 209, 247, 250, 125, 196,
          170, 159, 46, 93, 229, 180, 172, 174, 163, 71, 25, 251, 28, 209, 193>>,
        <<119, 245, 160, 208, 99, 74, 248, 170, 251, 130, 114, 75, 10, 219, 33, 183, 88,
          197, 238, 189, 88, 226, 68, 20, 61, 29, 235, 80, 66, 254, 146, 199>>,
        <<193, 147, 150, 69, 103, 107, 62, 95, 74, 180, 119, 221, 110, 76, 55, 64, 142, 45,
          189, 3, 234, 242, 254, 79, 247, 148, 87, 182, 44, 150, 210, 48>>,
        <<120, 185, 112, 172, 160, 57, 143, 38, 189, 222, 31, 232, 152, 120, 68, 249, 160,
          187, 219, 190, 244, 146, 53, 92, 23, 167, 13, 187, 121, 2, 12, 186>>,
        <<45, 79, 47, 188, 54, 132, 238, 250, 213, 6, 169, 123, 20, 220, 126, 61, 195, 65,
          120, 32, 69, 235, 97, 164, 233, 121, 138, 75, 225, 212, 95, 209>>,
        <<234, 16, 139, 237, 146, 109, 120, 204, 87, 74, 126, 211, 134, 133, 57, 21, 240,
          158, 211, 244, 56, 182, 51, 0, 161, 153, 201, 223, 159, 90, 175, 68>>,
        <<15, 7, 20, 114, 202, 5, 136, 2, 70, 23, 47, 129, 0, 166, 89, 200, 207, 210, 157,
          22, 210, 73, 178, 143, 124, 76, 214, 199, 241, 59, 92, 243>>
     >>
  >>

\* cipher.NewCTR(block, nonce) for these keys and the nonces of the model:
\* the first 48 bytes of the AES-256-CTR key stream, by password, salt and
\* nonce.
CtrKeyStreams ==
  <<
     <<
       <<
          <<238, 197, 120, 84, 185, 230, 101, 141, 164, 108, 109, 61, 128, 1, 90, 82, 2,
            203, 129, 23, 54, 39, 137, 68, 109, 136, 175, 86, 91, 171, 229, 104, 106, 240,
            56, 186, 238, 140, 26, 37, 234, 216, 125, 228, 22, 120, 155, 22>>,
          <<185, 91, 55, 84, 151, 228, 22, 163, 24, 48, 107, 113, 216, 120, 115, 158, 238,
            197, 120, 84, 185, 230, 101, 141, 164, 108, 109, 61, 128, 1, 90, 82, 2, 203,
            129, 23, 54, 39, 137, 68, 109, 136, 175, 86, 91, 171, 229, 104>>
       >>,
       <<
          <<181, 235, 252, 119, 8, 97, 179, 38, 190, 186, 86, 231, 3, 159, 179, 94, 227,
            162, 191, 235, 161, 132, 231, 60, 87, 249, 69, 185, 210, 95, 246, 56, 95, 46,
            78, 32, 191, 75, 9, 72, 147, 26, 72, 164, 73, 200, 214, 244>>,
          <<192, 96, 88, 38, 247, 177, 99, 107, 29, 71, 143, 177, 86, 68, 219, 103, 181,
            235, 252, 119, 8, 97, 179, 38, 190, 186, 86, 231, 3, 159, 179, 94, 227, 162,
            191, 235, 161, 132, 231, 60, 87, 249, 69, 185, 210, 95, 246, 56>>
       >>,
       <<
          <<14, 77, 128, 56, 71, 232, 81, 176, 21, 243, 155, 130, 227, 124, 230, 250, 216,
            232, 72, 244, 243, 234, 192, 128, 217, 226, 107, 138, 241, 79, 78, 206, 101,
            153, 143, 131, 11, 72, 225, 163, 212, 23, 177, 244, 183, 16, 29, 92>>,
          <<200, 38, 26, 62, 141, 132, 18, 222, 33, 229, 43, 42, 37, 78, 63, 86, 14, 77,
            128, 56, 71, 232, 81, 176, 21, 243, 155, 130, 227, 124, 230, 250, 216, 232, 72,
            244, 243, 234, 192, 128, 217, 226, 107, 138, 241, 79, 78, 206>>
       >>,
       <<
          <<47, 159, 133, 246, 213, 15, 222, 64, 33, 134, 154, 175, 37, 213, 237, 146, 186,
            176, 35, 192, 39, 114, 45, 196, 95, 226, 28, 229, 163, 41, 25, 239, 132, 71,
            130, 214, 133, 167, 13, 230, 65, 197, 94, 23, 188, 160, 166, 222>>,
          <<245, 1, 174, 95, 46, 21, 145, 13, 220, 172, 29, 171, 104, 136, 55, 223, 47,
            159, 133, 246, 213, 15, 222, 64, 33, 134, 154, 175, 37, 213, 237, 146, 186,
            176, 35, 192, 39, 114, 45, 196, 95, 226, 28, 229, 163, 41, 25, 239>>
       >>,
       <<
          <<121, 197, 24, 234, 73, 238, 35, 47, 186, 14, 210, 181, 229, 61, 120, 247, 183,
            141, 148, 152, 247, 236, 162, 143, 108, 104, 217, 69, 248, 81, 8, 48, 218, 242,
            62, 150, 124, 170, 56, 194, 118, 103, 33, 5, 95, 80, 236, 56>>,
          <<122, 156, 225, 153, 255, 53, 58, 52, 39, 20, 126, 96, 139, 109, 149, 179, 121,
            197, 24, 234, 73, 238, 35, 47, 186, 14, 210, 181, 229, 61, 120, 247, 183, 141,
            148, 152, 247, 236, 162, 143, 108, 104, 217, 69, 248, 81, 8, 48>>
       >>,
       <<
          <<54, 89, 242, 80, 98, 242, 119, 82, 3, 23, 221, 177, 220, 97, 12, 64, 101, 144,
            58, 191, 74, 36, 115, 116, 73, 129, 4, 173, 8, 215, 4, 240, 171, 30, 73, 83,
            241, 121, 122, 106, 31, 118, 220, 146, 99, 100, 216, 231>>,
          <<30, 202, 95, 179, 182, 51, 1, 228, 98, 77, 32, 98, 13, 98, 209, 141, 54, 89,
            242, 80, 98, 242, 119, 82, 3, 23, 221, 177, 220, 97, 12, 64, 101, 144, 58, 191,
            74, 36, 115, 116, 73, 129, 4, 173, 8, 215, 4, 240>>
       >>,
       <<
          <<199, 128, 154, 36, 129, 231, 148, 79, 228, 165, 27, 164, 121, 97, 120, 175, 11,
            81, 61, 157, 42, 39, 255, 234, 152, 49, 175, 58, 227, 33, 25, 5, 51, 177, 127,
            163, 13, 175, 140, 44, 135, 128, 84, 207, 154, 15, 73, 249>>,
          <<128, 141, 150, 175, 189, 249, 70, 158, 8, 218, 48, 218, 222, 82, 173, 163, 199,
            128, 154, 36, 129, 231, 148, 79, 228, 165, 27, 164, 121, 97, 120, 175, 11, 81,
            61, 157, 42, 39, 255, 234, 152, 49, 175, 58, 227, 33, 25, 5>>
       >>,
       <<
          <<55, 4, 65, 185, 40, 146, 31, 191, 169, 39, 65, 72, 237, 58, 149, 113, 61, 229,
            34, 42, 61, 154, 10, 149, 63, 125, 117, 233, 231, 203, 192, 199, 127, 15, 91,
            80, 171, 130, 94, 210, 87, 61, 172, 126, 18, 36, 173, 23>>,
          <<11, 89, 96, 251, 204, 215, 214, 203, 197, 15, 57, 152, 170, 23, 124, 53, 55, 4,
            65, 185, 40, 146, 31, 191, 169, 39, 65, 72, 237, 58, 149, 113, 61, 229, 34, 42,
            61, 154, 10, 149, 63, 125, 117, 233, 231, 203, 192, 199>>
       >>
     >>,
     <<
       <<
          <<150, 55, 201, 169, 165, 186, 176, 72, 72, 94, 100, 92, 250, 143, 95, 55, 227,
            130, 115, 53, 95, 78, 192, 53, 45, 108, 110, 167, 246, 3, 183, 197, 239, 205,
            18, 255, 33, 196, 216, 46, 155, 35, 70, 213, 39, 110, 79, 60>>,
          <<150, 63, 70, 110, 146, 86, 19, 121, 229, 0, 245, 8, 140, 145, 132, 85, 150, 55,
            201, 169, 165, 186, 176, 72, 72, 94, 100, 92, 250, 143, 95, 55, 227, 130, 115,
            53, 95, 78, 192, 53, 45, 108, 110, 167, 246, 3, 183, 197>>
       >>,
       <<
          <<186, 152, 50, 95, 242, 56, 167, 12, 7, 199, 92, 249, 140, 149, 69, 104, 74,
            254, 146, 245, 47, 160, 178, 136, 59, 207, 52, 0, 119, 173, 160, 191, 125, 64,
            147, 174, 82, 211, 115, 179, 66, 61, 215, 79, 184, 248, 233, 228>>,
          <<241, 226, 91, 36, 201, 254, 159, 54, 45, 1, 23, 8, 229, 77, 25, 153, 186, 152,
            50, 95, 242, 56, 167, 12, 7, 199, 92, 249, 140, 149, 69, 104, 74, 254, 146,
            245, 47, 160, 178, 136, 59, 207, 52, 0, 119, 173, 160, 191>>
       >>,
       <<
          <<20, 18, 8, 157, 101, 107, 84, 167, 135, 121, 244, 110, 228, 233, 171, 182, 139,
            30, 141, 132, 241, 243, 199, 85, 162, 74, 54, 167, 81, 21, 121, 197, 240, 95,
            49, 2, 249, 14, 112, 221, 175, 193, 23, 252, 193, 198, 195, 178>>,
          <<22, 223, 68, 216, 143, 10, 75, 113, 38, 155, 114, 105, 86, 83, 158, 247, 20,
            18, 8, 157, 101, 107, 84, 167, 135, 121, 244, 110, 228, 233, 171, 182, 139, 30,
            141, 132, 241, 243, 199, 85, 162, 74, 54, 167, 81, 21, 121, 197>>
       >>,
       <<
          <<183, 239, 114, 213, 170, 7, 27, 96, 130, 91, 181, 21, 98, 219, 217, 12, 8, 0,
            5, 180, 34, 9, 70, 103, 244, 186, 208, 252, 151, 249, 116, 172, 228, 135, 13,
            128, 185, 53, 75, 208, 47, 142, 3, 36, 100, 250, 228, 201>>,
          <<50, 96, 130, 113, 102, 244, 209, 251, 119, 120, 192, 63, 191, 192, 192, 165,
            183, 239, 114, 213, 170, 7, 27, 96, 130, 91, 181, 21, 98, 219, 217, 12, 8, 0,
            5, 180, 34, 9, 70, 103, 244, 186, 208, 252, 151, 249, 116, 172>>
       >>,
       <<
          <<247, 142, 200, 123, 153, 62, 160, 136, 131, 135, 205, 120, 41, 91, 109, 190,
            240, 116, 129, 211, 251, 205, 181, 248, 156, 9, 212, 78, 234, 123, 31, 251, 50,
            12, 248, 247, 113, 216, 121, 13, 63, 219, 141, 36, 112, 132, 248, 105>>,
          <<206, 62, 110, 110, 232, 11, 251, 104, 77, 204, 150, 224, 221, 61, 41, 218, 247,
            142, 200, 123, 153, 62, 160, 136, 131, 135, 205, 120, 41, 91, 109, 190, 240,
            116, 129, 211, 251, 205, 181, 248, 156, 9, 212, 78, 234, 123, 31, 251>>
       >>,
       <<
          <<76, 215, 73, 146, 135, 112, 149, 251, 194, 241, 164, 166, 177, 84, 227, 171,
            156, 69, 239, 181, 247, 223, 213, 103, 170, 237, 143, 146, 145, 66, 40, 120,
            112, 161, 69, 33, 14, 144, 210, 71, 71, 217, 168, 116, 4, 49, 254, 231>>,
          <<247, 227, 69, 241, 14, 171, 216, 179, 132, 218, 152, 186, 249, 98, 171, 68, 76,
            215, 73, 146, 135, 112, 149, 251, 194, 241, 164, 166, 177, 84, 227, 171, 156,
            69, 239, 181, 247, 223, 213, 103, 170, 237, 143, 146, 145, 66, 40, 120>>
       >>,
       <<
          <<179, 213, 140, 122, 174, 249, 157, 40, 92, 114, 170, 221, 79, 39, 156, 60, 6,
            56, 194, 250, 146, 162, 192, 80, 220, 223, 56, 170, 37, 198, 178, 68, 102, 63,
            192, 66, 236, 8, 85, 169, 82, 4, 137, 182, 217, 3, 206, 184>>,
          <<1, 92, 64, 20, 44, 110, 66, 210, 179, 36, 62, 20, 0, 130, 42, 141, 179, 213,
            140, 122, 174, 249, 157, 40, 92, 114, 170, 221, 79, 39, 156, 60, 6, 56, 194,
            250, 146, 162, 192, 80, 220, 223, 56, 170, 37, 198, 178, 68>>
       >>,
       <<
          <<55, 135, 186, 227, 184, 84, 167, 172, 88, 212, 179, 180, 110, 204, 10, 217,
            119, 75, 193, 118, 5, 194, 176, 43, 123, 55, 122, 10, 70, 223, 228, 79, 246, 0,
            48, 78, 244, 127, 88, 159, 59, 174, 154, 231, 97, 153, 48, 138>>,
          <<227, 144, 10, 32, 93, 181, 85, 39, 151, 253, 198, 218, 2, 180, 64, 25, 55, 135,
            186, 227, 184, 84, 167, 172, 88, 212, 179, 180, 110, 204, 10, 217, 119, 75,
            193, 118, 5, 194, 176, 43, 123, 55, 122, 10, 70, 223, 228, 79>>
       >>
     >>
  >>

\* pbkdf2.Key(password, salt, ...).
pbkdf2Key(pw, salt) ==
    DerivedKeys[IF pw = "alpha" THEN 1 ELSE 2][CHOOSE k \in 1..Len(Salts) : Salts[k] = salt]

\* aes.NewCipher(key), cipher.NewCTR(block, nonce): byte i of the key stream.
KeyStream(key, nonce, i) ==
    LET at == CHOOSE ps \in (1..Len(DerivedKeys)) \X (1..Len(Salts)) :
                  DerivedKeys[ps[1]][ps[2]] = key
        n  == CHOOSE k \in 1..Len(Nonces) : Nonces[k] = nonce
    IN  CtrKeyStreams[at[1]][at[2]][n][i]

\* cipher.StreamWriter: XOR of the data with the key stream.
XORKeyStream(key, nonce, data) ==
    [i \in 1..Len(data) |-> Xor(data[i], KeyStream(key, nonce, i))]

\* streamEncryptUpload: salt, nonce, then the ciphertext.
streamEncryptUpload(plain, pw, salt, nonce) ==
    salt \o nonce \o XORKeyStream(pbkdf2Key(pw, salt), nonce, plain)

\* getOneFile: decrypt, from the bytes read into header and the password.
IsEncrypted(file, pw) ==
    /\ pw /= ""
    /\ Len(file) >= saltLen + nonceLen
    /\ (file[1] /= ByteP \/ file[2] /= ByteK)

\* getOneFile: what is written to the local path.
Downloaded(file, pw) ==
    IF IsEncrypted(file, pw)
    THEN XORKeyStream(pbkdf2Key(pw, SubSeq(file, 1, saltLen)),
                      SubSeq(file, saltLen + 1, saltLen + nonceLen),
                      SubSeq(file, saltLen + nonceLen + 1, Len(file)))
    ELSE file

CInit ==
    /\ cplain \in Payloads
    /\ cupass \in PasswordValues
    /\ cdpass \in PasswordValues
    /\ cremote = <<>>
    /\ clocal = <<>>
    /\ cuerr = FALSE
    /\ cgerr = FALSE
    /\ cphase = "init"

\* The other specifications leave the transfer alone.
CryptIdle ==
    /\ cplain = <<>>
    /\ cupass = ""
    /\ cdpass = ""
    /\ cremote = <<>>
    /\ clocal = <<>>
    /\ cuerr = FALSE
    /\ cgerr = FALSE
    /\ cphase = "init"

\* uploadFile after client.Create: io.Copy, or streamEncryptUpload when a
\* password is set; a write to the remote file may fail and leave a prefix:
\* nothing or the salt when dst.Write fails, otherwise what io.Copy wrote.
Upload ==
    /\ cphase = "init"
    /\ \E pw \in {TrimSpace(cupass)} :
       \E s \in 1..Len(Salts), n \in 1..Len(Nonces) :
       \E whole \in {IF pw /= "" THEN streamEncryptUpload(cplain, pw, Salts[s], Nonces[n])
                                ELSE cplain} :
         \/ /\ cremote' = whole
            /\ cuerr' = FALSE
         \/ /\ \E k \in IF pw /= ""
                         THEN {0, saltLen} \cup (saltLen + nonceLen)..(Len(whole) - 1)
                         ELSE 0..(Len(whole) - 1) :
                 cremote' = SubSeq(whole, 1, k)
            /\ cuerr' = TRUE
    /\ cphase' = "uploaded"
    /\ UNCHANGED <<cplain, cupass, cdpass, clocal, cgerr>>
    /\ UNCHANGED exceptCrypt

\* getOneFile.  The local file is written after os.Create only; a failure
\* of dst.Write(header[:n]) or of io.Copy after it returns the error and
\* leaves the bytes written before it at the local path.
Get ==
    /\ cphase = "uploaded"
    /\ \/ /\ cgerr' = TRUE                       \* client.Open, io.ReadFull or
          /\ clocal' = clocal                    \* os.Create fails
       \/ /\ Len(cremote) > 0                     \* io.ReadFull: ErrUnexpectedEOF
          /\ Len(cremote) < saltLen + nonceLen
          /\ cgerr' = TRUE
          /\ clocal' = clocal
       \/ /\ Len(cremote) = 0 \/ Len(cremote) >= saltLen + nonceLen
          /\ \E whole \in {Downloaded(cremote, TrimSpace(cdpass))} :
               \/ /\ cgerr' = FALSE
                  /\ clocal' = whole
               \/ /\ cgerr' = TRUE               \* a write or the copy fails
                  /\ \E k \in 0..Len(whole) : clocal' = SubSeq(whole, 1, k)
    /\ cphase' = "got"
    /\ UNCHANGED <<cplain, cupass, cdpass, cremote, cuerr>>
    /\ UNCHANGED exceptCrypt

NextCrypt == Upload \/ Get

-----------------------------------------------------------------------------
(* Package run: one backup cycle, Backup from the call of backup.Run on.    *)

CycleDays == 2          \* calendar days from which the day of Run is drawn
CycleAge == 2           \* the directory holds the artifacts of the last CycleAge days

CycleDayRange == FirstDay..(FirstDay + CycleDays - 1)

\* The names of the two directories of a cycle.
CycleNameSet ==
    {Artifact(z, d) : z \in (FirstDay - CycleAge - 1)..(FirstDay + CycleDays - 1),
                      d \in DBset}

\* os.ReadDir returns the names sorted: by date, then by database.
DbIndex(d) == CHOOSE i \in 1..Len(dbs) : dbs[i] = d
NameBefore(a, b) == a.key < b.key \/ (a.key = b.key /\ DbIndex(a.db) < DbIndex(b.db))

\* Modification times of a cycle, in the order of the events: an archive of
\* an earlier cycle was written before it was uploaded, the archives of this
\* cycle are written after that, and uploaded after they are written.
CycleTime(event) ==
    CASE event = "earlier write" -> 1
      [] event = "earlier upload" -> 2
      [] event = "write" -> 3
      [] event = "upload" -> 4

\* The backup directory before a cycle that runs on the day z: the artifacts
\* of the last CycleAge days, and with again the artifact an earlier cycle
\* of the same day wrote for the first database.
CycleLocal(z, again) ==
    [n \in CycleNameSet |->
        IF (ParseDate(n.key).t >= z - CycleAge /\ ParseDate(n.key).t < z)
           \/ (again /\ n = Artifact(z, dbs[1]))
        THEN Entry(CycleTime("earlier write"), ArchiveSize)
        ELSE NoEntry]

\* uploadFile of the package remote that Backup calls: os.Open, client.Create
\* and io.Copy; the remote entry a complete upload at the time t leaves.
uploadFilePlain(loc, t) == Entry(t, loc.size)

\* The remote directory before the cycle: empty, a copy of the local one, or
\* the artifacts of the oldest local day and one the local directory no
\* longer holds.
CycleRemote(z, again, pattern) ==
    [n \in CycleNameSet |->
        CASE pattern = "empty" -> NoEntry
          [] pattern = "mirror" ->
               IF CycleLocal(z, again)[n].exists
               THEN uploadFilePlain(CycleLocal(z, again)[n], CycleTime("earlier upload"))
               ELSE NoEntry
          [] OTHER ->
               IF ParseDate(n.key).t \in {z - CycleAge - 1, z - CycleAge} /\ n.db = dbs[1]
               THEN Entry(CycleTime("earlier upload"), ArchiveSize)
               ELSE NoEntry]

CyInit ==
    /\ ypc = "start"
    /\ yidx = 1
    /\ yrunDay \in CycleDayRange
    /\ ynow = yrunDay
    /\ yretain \in [daily : {0, 1}, weekly : {0, 1}, monthly : {0, 1}, yearly : {0, 1}]
    /\ yconf \in {"off", "on"}
    /\ \E again \in BOOLEAN, pattern \in {"empty", "mirror", "stale"} :
         /\ ylocal = CycleLocal(yrunDay, again)
         /\ yremote = CycleRemote(yrunDay, again, pattern)
    /\ ycreated = <<>>
    /\ ysteps = <<>>
    /\ ylisted = {}
    /\ yerr = "none"

\* The other specifications leave the cycle alone.
CycleIdle ==
    /\ ypc = "start"
    /\ yidx = 1
    /\ yrunDay = FirstDay
    /\ ynow = FirstDay
    /\ yretain = [daily |-> 0, weekly |-> 0, monthly |-> 0, yearly |-> 0]
    /\ yconf = "off"
    /\ ylocal = [n \in CycleNameSet |-> NoEntry]
    /\ yremote = [n \in CycleNameSet |-> NoEntry]
    /\ ycreated = <<>>
    /\ ysteps = <<>>
    /\ ylisted = {}
    /\ yerr = "none"

\* Backup after backup.Run returned: return the error, or go on to retention.
afterRun(runErr) == IF runErr THEN "failed" ELSE "written"

\* Backup up to the call of backup.Run, and Run up to its loop; every error
\* before the call of Run makes Backup return, and so does a server that
\* lists no database, without an error.
CycleStart ==
    /\ ypc = "start"
    /\ \/ /\ ypc' = "run"
          /\ ysteps' = <<"run">>
          /\ UNCHANGED yerr
       \/ /\ ypc' = "failed"                     \* disk space, server, list of databases
          /\ yerr' = "early"
          /\ UNCHANGED ysteps
       \/ /\ ypc' = "done"                       \* len(dbs) == 0: return nil
          /\ UNCHANGED <<ysteps, yerr>>
    /\ UNCHANGED <<yidx, yrunDay, ynow, yretain, yconf, ylocal, yremote, ycreated, ylisted>>
    /\ UNCHANGED exceptCycle

\* backup.Run, one iteration of its loop: the archive of dbs[yidx] is written
\* and committed, or the writer fails, cancels and Run returns the error. A
\* failed writer leaves at the target name the file that was there, no file,
\* or the partially written one.
CycleWrite ==
    /\ ypc = "run"
    /\ \E name \in {Artifact(yrunDay, dbs[yidx])} :
         \/ /\ ylocal' = [ylocal EXCEPT ![name] = Entry(CycleTime("write"), ArchiveSize)]
            /\ ycreated' = Append(ycreated, name)
            /\ IF yidx < Len(dbs)
               THEN yidx' = yidx + 1 /\ UNCHANGED ypc
               ELSE ypc' = afterRun(FALSE) /\ UNCHANGED yidx
            /\ UNCHANGED yerr
         \/ /\ \E left \in {ylocal[name], NoEntry}
                            \cup {Entry(CycleTime("write"), sz) : sz \in 0..ArchiveSize} :
                 ylocal' = [ylocal EXCEPT ![name] = left]
            /\ ycreated' = <<>>
            /\ ypc' = afterRun(TRUE)
            /\ yerr' = "backup"
            /\ UNCHANGED yidx
    /\ UNCHANGED <<yrunDay, ynow, yretain, yconf, yremote, ysteps, ylisted>>
    /\ UNCHANGED exceptCycle

\* retention.ApplyToDirs as Backup calls it: Apply on the backup directory
\* with the day of its own time.Now(); an error is logged and Backup goes on.
\* The path RemoteBackupDir names no directory of the local machine, so the
\* second Apply finds nothing.
CycleApply ==
    /\ ypc = "written"
    /\ ypc' = "pruned"
    /\ ysteps' = Append(ysteps, "apply")
    /\ \E now \in {yrunDay, yrunDay + 1} :
         /\ ynow' = now
         /\ \/ UNCHANGED ylocal                    \* ListBackups returns an error
            \/ \E list \in {ListBackups({n \in CycleNameSet : ylocal[n].exists})} :
               \E k \in {KeepSets(now, yretain)} :
               \E due \in {Due(list, k)} :
               \E locked \in {{}, {dbs[Len(dbs)]}} :
               \E removed \in {{f.name : f \in Removed(due, locked)}} :
                 ylocal' = [n \in CycleNameSet |->
                              IF n \in removed THEN NoEntry ELSE ylocal[n]]
    /\ UNCHANGED <<yidx, yrunDay, yretain, yconf, yremote, ycreated, ylisted, yerr>>
    /\ UNCHANGED exceptCycle

\* The remote step of Backup: remote.Copy(cfg, createdFiles, log) uploads the
\* files Run created, in their order, and returns at the first upload that
\* fails. The upload of a file that is no longer in the directory fails in
\* os.Open.
CycleCopy ==
    LET copiedBefore(bad) == {ycreated[i] : i \in 1..(bad - 1)}
    IN
    /\ ypc = "pruned"
    /\ ysteps' = Append(ysteps, "remote")
    /\ \/ /\ yconf = "off"                       \* not configured: return nil
          /\ ylisted' = {}
          /\ ypc' = "done"
          /\ UNCHANGED <<yremote, yerr>>
       \/ /\ yconf /= "off"                      \* dial or sftp.NewClient fails
          /\ ylisted' = {}
          /\ ypc' = "failed"
          /\ yerr' = "remote"
          /\ UNCHANGED yremote
       \/ /\ yconf /= "off"                      \* an upload fails
          /\ \E bad \in 1..Len(ycreated), how \in UploadFailures(FALSE) :
             \E w \in PartialCopies(ylocal[ycreated[bad]], how) :
             \E done \in {copiedBefore(bad)} :
               /\ \A n \in done : ylocal[n].exists
               /\ ylocal[ycreated[bad]].exists \/ how = "open"
               /\ ylisted' = done \cup {ycreated[bad]}
               /\ yremote' = [n \in CycleNameSet |->
                                IF n \in done
                                THEN uploadFilePlain(ylocal[n], CycleTime("upload"))
                                ELSE IF n = ycreated[bad] /\ how = "copy"
                                THEN Entry(CycleTime("upload"), w)
                                ELSE yremote[n]]
          /\ ypc' = "failed"
          /\ yerr' = "remote"
       \/ /\ yconf /= "off"                      \* every upload succeeds
          /\ \E done \in {copiedBefore(Len(ycreated) + 1)} :
               /\ \A n \in done : ylocal[n].exists
               /\ ylisted' = done
               /\ yremote' = [n \in CycleNameSet |->
                                IF n \in done
                                THEN uploadFilePlain(ylocal[n], CycleTime("upload"))
                                ELSE yremote[n]]
          /\ ypc' = "done"
          /\ UNCHANGED yerr
    /\ UNCHANGED <<yidx, yrunDay, ynow, yretain, yconf, ylocal, ycreated>>
    /\ UNCHANGED exceptCycle

NextCycle == CycleStart \/ CycleWrite \/ CycleApply \/ CycleCopy

-----------------------------------------------------------------------------
(* Package restore: restoreZip.                                             *)

MaxChunks == 3          \* chunks of the .sql entry (one Read of io.Copy each)

PInit ==
    /\ pmain = "start"
    /\ pcopier = "idle"
    /\ ptotal \in 0..MaxChunks
    /\ pleft = ptotal
    /\ ppipe = "empty"
    /\ pwclosed = "open"
    /\ prclosed = FALSE
    /\ pcopyRes = "nil"
    /\ pchan = "empty"
    /\ pimport = "pending"
    /\ pconsumed = 0
    /\ pret = "none"

\* The other specifications leave restoreZip alone.
PipeIdle ==
    /\ pmain = "start"
    /\ pcopier = "idle"
    /\ ptotal = 0
    /\ pleft = 0
    /\ ppipe = "empty"
    /\ pwclosed = "open"
    /\ prclosed = FALSE
    /\ pcopyRes = "nil"
    /\ pchan = "empty"
    /\ pimport = "pending"
    /\ pconsumed = 0
    /\ pret = "none"

\* restoreZip up to `go func()`: the archive or its .sql entry cannot be
\* opened and restoreZip returns, or the pipe is made and the goroutine starts.
RestoreStart ==
    /\ pmain = "start"
    /\ \/ /\ pmain' = "done"
          /\ pret' = "open"
          /\ UNCHANGED pcopier
       \/ /\ pmain' = "import"
          /\ pcopier' = "copy"
          /\ UNCHANGED pret
    /\ UNCHANGED <<ptotal, pleft, ppipe, pwclosed, prclosed, pcopyRes, pchan, pimport,
                   pconsumed>>
    /\ UNCHANGED exceptPipe

\* The goroutine, io.Copy: one Read from the entry. It returns a chunk, the
\* end of the entry, or an error of the archive reader.
CopierRead ==
    /\ pcopier = "copy"
    /\ \/ /\ pleft > 0
          /\ pcopier' = "write"
          /\ UNCHANGED pcopyRes
       \/ /\ pleft > 0
          /\ pcopier' = "close"
          /\ pcopyRes' = "read"
       \/ /\ pleft = 0
          /\ pcopier' = "close"
          /\ pcopyRes' = "nil"
    /\ UNCHANGED <<pmain, ptotal, pleft, ppipe, pwclosed, prclosed, pchan, pimport,
                   pconsumed, pret>>
    /\ UNCHANGED exceptPipe

\* The goroutine, io.Copy: pw.Write is entered. On a pipe whose read side is
\* closed it returns io.ErrClosedPipe, otherwise it hands the chunk over and
\* waits.
CopierWrite ==
    /\ pcopier = "write"
    /\ IF prclosed
       THEN /\ pcopier' = "close"
            /\ pcopyRes' = "closedpipe"
            /\ UNCHANGED ppipe
       ELSE /\ pcopier' = "blocked"
            /\ ppipe' = "data"
            /\ UNCHANGED pcopyRes
    /\ UNCHANGED <<pmain, ptotal, pleft, pwclosed, prclosed, pchan, pimport, pconsumed, pret>>
    /\ UNCHANGED exceptPipe

\* The goroutine, io.Copy: the waiting pw.Write returns, because the chunk was
\* read or because the read side was closed.
CopierUnblock ==
    /\ pcopier = "blocked"
    /\ \/ /\ ppipe = "empty"
          /\ pcopier' = "copy"
          /\ pleft' = pleft - 1
          /\ UNCHANGED <<pcopyRes, ppipe>>
       \/ /\ ppipe = "data"
          /\ prclosed
          /\ pcopier' = "close"
          /\ pcopyRes' = "closedpipe"
          /\ ppipe' = "empty"
          /\ UNCHANGED pleft
    /\ UNCHANGED <<pmain, ptotal, pwclosed, prclosed, pchan, pimport, pconsumed, pret>>
    /\ UNCHANGED exceptPipe

\* The goroutine: pw.CloseWithError(err).
CopierClose ==
    /\ pcopier = "close"
    /\ pwclosed' = IF pcopyRes = "nil" THEN "eof" ELSE "err"
    /\ pcopier' = "send"
    /\ UNCHANGED <<pmain, ptotal, pleft, ppipe, prclosed, pcopyRes, pchan, pimport,
                   pconsumed, pret>>
    /\ UNCHANGED exceptPipe

\* The goroutine: copyErr <- err; the channel has room for one value.
CopierSend ==
    /\ pcopier = "send"
    /\ pchan = "empty"
    /\ pchan' = pcopyRes
    /\ pcopier' = "done"
    /\ UNCHANGED <<pmain, ptotal, pleft, ppipe, pwclosed, prclosed, pcopyRes, pimport,
                   pconsumed, pret>>
    /\ UNCHANGED exceptPipe

\* conn.ImportSQL(pr): one Read from the pipe. It takes the chunk that is
\* waiting; at the end of the stream ImportSQL returns, nil or an error of
\* the import; after CloseWithError(err) the Read fails and ImportSQL returns
\* the error of its input.
ImportRead ==
    /\ pmain = "import"
    /\ \/ /\ ppipe = "data"
          /\ ppipe' = "empty"
          /\ pconsumed' = pconsumed + 1
          /\ UNCHANGED <<pmain, pimport>>
       \/ /\ ppipe = "empty"
          /\ pwclosed = "eof"
          /\ pimport' \in {"nil", "import"}
          /\ pmain' = "closepr"
          /\ UNCHANGED <<ppipe, pconsumed>>
       \/ /\ ppipe = "empty"
          /\ pwclosed = "err"
          /\ pimport' = "stream"
          /\ pmain' = "closepr"
          /\ UNCHANGED <<ppipe, pconsumed>>
    /\ UNCHANGED <<pcopier, ptotal, pleft, pwclosed, prclosed, pcopyRes, pchan, pret>>
    /\ UNCHANGED exceptPipe

\* conn.ImportSQL(pr) returns an error of the import before the end of the
\* stream (the client cannot connect, a statement fails).
ImportFail ==
    /\ pmain = "import"
    /\ pimport' = "import"
    /\ pmain' = "closepr"
    /\ UNCHANGED <<pcopier, ptotal, pleft, ppipe, pwclosed, prclosed, pcopyRes, pchan,
                   pconsumed, pret>>
    /\ UNCHANGED exceptPipe

\* restoreZip: _ = pr.Close().
ClosePr ==
    /\ pmain = "closepr"
    /\ prclosed' = TRUE
    /\ pmain' = "recv"
    /\ UNCHANGED <<pcopier, ptotal, pleft, ppipe, pwclosed, pcopyRes, pchan, pimport,
                   pconsumed, pret>>
    /\ UNCHANGED exceptPipe

\* restoreZip: what is returned for the two errors.
restoreZipReturns(copyE, importE) == IF copyE /= "nil" THEN copyE ELSE importE

\* restoreZip: err := <-copyErr and the two returns.
ReceiveAndReturn ==
    /\ pmain = "recv"
    /\ pchan /= "empty"
    /\ pret' = restoreZipReturns(pchan, pimport)
    /\ pchan' = "empty"
    /\ pmain' = "done"
    /\ UNCHANGED <<pcopier, ptotal, pleft, ppipe, pwclosed, prclosed, pcopyRes, pimport,
                   pconsumed>>
    /\ UNCHANGED exceptPipe

NextPipe ==
    \/ RestoreStart
    \/ CopierRead
    \/ CopierWrite
    \/ CopierUnblock
    \/ CopierClose
    \/ CopierSend
    \/ ImportRead
    \/ ImportFail
    \/ ClosePr
    \/ ReceiveAndReturn

-----------------------------------------------------------------------------
(* Package backup: parseUserRecords and ParseUserSQL.                       *)
\* A line of the export is the record of what the patterns userHostRe,
\* identifiedByRe and grantOnDbRe find in it: the statement kind, the user
\* and host, the hash of an IDENTIFIED BY PASSWORD clause ("" without one),
\* and the database of the ON clause (Wildcard for a grant on all databases).

MaxLines == 3           \* lines of a user export

UserNames == {"u1", "u2"}
HostNames == {"%", "localhost"}
Hashes == {"h1", "h2"}
Wildcard == "*"
FragmentKeys == DBset \cup {Wildcard}

\* The hosts the exports of the model use with a user name.
AccountHosts(n) == IF n = "u1" THEN HostNames ELSE {"localhost"}

\* The hashes the GRANT lines of the model carry.
GrantHashes(n, h) == IF n = "u1" /\ h = "%" THEN {"", "h2"} ELSE {""}

CreateLines ==
    {[kind |-> "create", name |-> n, host |-> h, hash |-> w, db |-> ""] :
        n \in UserNames, h \in HostNames, w \in {""} \cup Hashes}

GrantLines ==
    {[kind |-> "grant", name |-> n, host |-> h, hash |-> w, db |-> d] :
        n \in UserNames, h \in HostNames, w \in {"", "h2"}, d \in FragmentKeys}

OtherLine == [kind |-> "other", name |-> "", host |-> "", hash |-> "", db |-> ""]

ExportLines ==
    {l \in CreateLines : l.host \in AccountHosts(l.name)}
    \cup {l \in GrantLines : l.host \in AccountHosts(l.name)
                             /\ l.hash \in GrantHashes(l.name, l.host)}
    \cup {OtherLine}

Exports == UNION {[1..n -> ExportLines] : n \in 0..MaxLines}

extractGrantDbKeepingWildcard(db) == db

\* extractGrantDb: the database of a grant, "" for a grant on all databases.
extractGrantDb(db) == IF db = Wildcard THEN "" ELSE db

\* users[name] of a name that is not in the map.
NoUser ==
    [present |-> FALSE, name |-> "", hosts |-> <<>>, password |-> "",
     pwByHost |-> [h \in HostNames |-> ""], grants |-> <<>>, dbs |-> {}]

newUserRecord(name) == [NoUser EXCEPT !.present = TRUE, !.name = name]

addHost(u, host) ==
    IF \E i \in 1..Len(u.hosts) : u.hosts[i] = host
    THEN u
    ELSE [u EXCEPT !.hosts = Append(@, host)]

setPasswordOverwriting(u, host, hash) ==
    IF hash = ""
    THEN [u |-> u, err |-> FALSE]
    ELSE [u |-> [u EXCEPT !.pwByHost[host] = hash,
                          !.password = IF @ = "" THEN hash ELSE @],
          err |-> FALSE]

\* setPassword: the record after the call and whether it returned an error.
setPassword(u, host, hash) ==
    IF hash = ""
    THEN [u |-> u, err |-> FALSE]
    ELSE IF u.pwByHost[host] /= "" /\ u.pwByHost[host] /= hash
         THEN [u |-> u, err |-> TRUE]
         ELSE [u |-> [u EXCEPT !.pwByHost[host] = hash,
                               !.password = IF @ = "" THEN hash ELSE @],
               err |-> FALSE]

hasDifferentPasswords(u) ==
    \E h1 \in HostNames, h2 \in HostNames :
        /\ u.pwByHost[h1] /= ""
        /\ u.pwByHost[h2] /= ""
        /\ u.pwByHost[h1] /= u.pwByHost[h2]

NoWarnings == <<>>

\* parseUserRecords: the body of the scan loop for one line. st holds the map
\* users and the warnings reported so far.
scanLine(st, line) ==
    IF line.kind = "other"
    THEN st
    ELSE LET u0 == IF st.users[line.name].present
                   THEN st.users[line.name]
                   ELSE newUserRecord(line.name)
             r  == setPassword(addHost(u0, line.host), line.host, line.hash)
             db == extractGrantDb(line.db)
             u2 == IF line.kind = "grant"
                   THEN [r.u EXCEPT !.dbs = IF db /= "" THEN @ \cup {db} ELSE @,
                                    !.grants = Append(@, [raw |-> line, db |-> db])]
                   ELSE r.u
         IN [users |-> [st.users EXCEPT ![line.name] = u2],
             warns |-> IF r.err
                       THEN Append(st.warns, [msg |-> "err.user_differing_password",
                                              name |-> line.name, host |-> line.host])
                       ELSE st.warns]

RECURSIVE scanFrom(_, _, _)
scanFrom(sql, i, st) ==
    IF i > Len(sql) THEN st ELSE scanFrom(sql, i + 1, scanLine(st, sql[i]))

parseUserRecords(sql) ==
    scanFrom(sql, 1, [users |-> [n \in UserNames |-> NoUser], warns |-> NoWarnings])

passHashPerHost(u, h) == u.pwByHost[h]

\* ParseUserSQL: the hash a creation statement of user u for host h carries.
passHashFor(u, h) == u.password

createStatement(u, h) ==
    [stmt |-> "CREATE USER IF NOT EXISTS", name |-> u.name, host |-> h,
     hash |-> passHashFor(u, h), db |-> ""]

\* stripIdentRe.ReplaceAllString on a grant line: the line without its
\* IDENTIFIED BY PASSWORD clause.
strippedGrant(raw) ==
    [stmt |-> "GRANT", name |-> raw.name, host |-> raw.host, hash |-> "", db |-> raw.db]

grantsForAnyDb(u, db) == u.grants

\* ParseUserSQL: the grants of u that go into the block for db.
grantsFor(u, db) == SelectSeq(u.grants, LAMBDA g : g.db = db)

\* ParseUserSQL: the block of user u for db.
userBlock(u, db) ==
    [i \in 1..Len(u.hosts) |-> createStatement(u, u.hosts[i])]
    \o [i \in 1..Len(grantsFor(u, db)) |-> strippedGrant(grantsFor(u, db)[i].raw)]

\* ParseUserSQL: one pass of `for _, u := range users`.
addUser(acc, u) ==
    IF ~u.present \/ u.dbs = {}
    THEN acc
    ELSE [acc EXCEPT
            !.warns = IF hasDifferentPasswords(u)
                      THEN Append(@, [msg |-> "log.warn.user_different_passwords",
                                      name |-> u.name, host |-> ""])
                      ELSE @,
            !.dbToSQL = [d \in FragmentKeys |->
                            IF d \in u.dbs THEN @[d] \o userBlock(u, d) ELSE @[d]]]

RECURSIVE rangeUsers(_, _, _, _)
rangeUsers(users, order, i, acc) ==
    IF i > Len(order)
    THEN acc
    ELSE rangeUsers(users, order, i + 1, addUser(acc, users[order[i]]))

\* userNamesFromUsers: the "user@host" pairs of the records.
userNamesFromUsers(users) ==
    UNION {{<<n, users[n].hosts[i]>> : i \in 1..Len(users[n].hosts)} :
              n \in {m \in UserNames : users[m].present}}

NoFragments == [d \in FragmentKeys |-> <<>>]

\* The orders in which `range users` may visit the map.
RangeOrders == {o \in [1..Cardinality(UserNames) -> UserNames] :
                    \A i, j \in DOMAIN o : i /= j => o[i] /= o[j]}

\* ParseUserSQL(sql, warn) with a warn callback, for one order of the map.
ParseUserSQL(sql, order) ==
    IF Len(sql) = 0
    THEN [dbToSQL |-> NoFragments, names |-> {}, warns |-> NoWarnings,
          users |-> [n \in UserNames |-> NoUser]]
    ELSE LET parsed == parseUserRecords(sql)
             acc == rangeUsers(parsed.users, order, 1,
                               [dbToSQL |-> NoFragments, warns |-> parsed.warns])
         IN [dbToSQL |-> acc.dbToSQL, names |-> userNamesFromUsers(parsed.users),
             warns |-> acc.warns, users |-> parsed.users]

NotCalled == [dbToSQL |-> NoFragments, names |-> {}, warns |-> NoWarnings]

UInit ==
    /\ uin \in Exports
    /\ uph = "input"
    /\ uusers = [n \in UserNames |-> NoUser]
    /\ uout = NotCalled

\* The other specifications leave ParseUserSQL alone.
UsersIdle ==
    /\ uin = <<>>
    /\ uph = "input"
    /\ uusers = [n \in UserNames |-> NoUser]
    /\ uout = NotCalled

\* backup.Run: dbToUserSQL, userNames := ParseUserSQL(userSQL, log.Warn).
ParseExport ==
    /\ uph = "input"
    /\ \E order \in RangeOrders :
         \E r \in {ParseUserSQL(uin, order)} :
            /\ uusers' = r.users
            /\ uout' = [dbToSQL |-> r.dbToSQL, names |-> r.names, warns |-> r.warns]
    /\ uph' = "done"
    /\ UNCHANGED uin
    /\ UNCHANGED exceptUsers

NextUsers == ParseExport

-----------------------------------------------------------------------------
(* Specifications.                                                         *)

Init == BInit /\ RetentionIdle /\ SyncIdle /\ CryptIdle /\ CycleIdle /\ PipeIdle /\ UsersIdle
Spec == Init /\ [][Next]_vars

WriterOff == fs = [d \in DBset |-> NoPair] /\ WriterIdle

InitRet == RInit /\ WriterOff /\ SyncIdle /\ CryptIdle /\ CycleIdle /\ PipeIdle /\ UsersIdle
SpecRet == InitRet /\ [][NextRet]_vars

InitSync == SInit /\ WriterOff /\ RetentionIdle /\ CryptIdle /\ CycleIdle /\ PipeIdle /\ UsersIdle
SpecSync == InitSync /\ [][NextSync]_vars

InitCrypt == CInit /\ WriterOff /\ RetentionIdle /\ SyncIdle /\ CycleIdle /\ PipeIdle /\ UsersIdle
SpecCrypt == InitCrypt /\ [][NextCrypt]_vars

InitCycle == CyInit /\ WriterOff /\ RetentionIdle /\ SyncIdle /\ CryptIdle /\ PipeIdle /\ UsersIdle
SpecCycle == InitCycle /\ [][NextCycle]_vars

InitPipe == PInit /\ WriterOff /\ RetentionIdle /\ SyncIdle /\ CryptIdle /\ CycleIdle /\ UsersIdle
SpecPipe == InitPipe /\ [][NextPipe]_vars

InitUsers ==
    UInit /\ WriterOff /\ RetentionIdle /\ SyncIdle /\ CryptIdle /\ CycleIdle /\ PipeIdle
SpecUsers == InitUsers /\ [][NextUsers]_vars

-----------------------------------------------------------------------------
(* Claims about the archive writer, checked under Spec.                    *)

\* Run has just returned an error after a step between os.Create and the end
\* of finish() failed and cancel() ran.
RolledBackAfterCreate ==
    /\ pc = "done"
    /\ last.kind = "rolledback"
    /\ last.cause \in {"dump", "block", "finish"}

\* C1, for the runs in which the Remove and the Rename of cancel() succeed:
\* after a failure between the creation of the container and commit, and
\* cancel(), Run returns an error, the target holds the original archive when
\* one existed, and no file when neither the target nor a leftover sidecar
\* existed when the writer started.
C1_RollbackRestoresWhenCleanupSucceeds ==
    (RolledBackAfterCreate /\ last.cleanOK) =>
        /\ err
        /\ created = <<>>
        /\ preZip.exists => fs[last.db].zip = preZip /\ ~fs[last.db].sav.exists
        /\ (~preZip.exists /\ ~preSav.exists) =>
               ~fs[last.db].zip.exists /\ ~fs[last.db].sav.exists

\* Recovery has just run after a crash that hit a writer whose target held a
\* complete archive, and no call of the recovery failed.
RecoveredAfterCrash ==
    /\ pc = "stage"
    /\ idx = 1
    /\ recClean
    /\ crash.valid
    /\ crash.pre.exists
    /\ crash.pre.complete

\* C2 as stated: after a crash between step 1 and commit and the next cycle's
\* recoverSavFiles, the target holds the previous good archive or a completely
\* written new one, never a partially written file.
C2_CrashLeavesGoodArchive ==
    RecoveredAfterCrash =>
        LET z == fs[crash.db].zip
        IN  \/ z = crash.pre
            \/ z.exists /\ z.complete /\ z.gen = crash.gen

\* Recovery has just run and none of its calls failed.
RecoveredCleanly == pc = "stage" /\ idx = 1 /\ recClean

\* C3: after a recovery without a failed call no sidecar is left; where sidecar
\* and target both existed the larger one is at the target name, and a sidecar
\* without a target has been renamed to the target name.
C3_RecoveryKeepsLarger ==
    RecoveredCleanly =>
        \A d \in DBset :
            LET p == recPre[d]
                q == fs[d]
            IN  /\ ~q.sav.exists
                /\ (p.sav.exists /\ p.zip.exists /\ p.sav.size > p.zip.size)
                       => q.zip = p.sav
                /\ (p.sav.exists /\ p.zip.exists /\ p.zip.size > p.sav.size)
                       => q.zip = p.zip
                /\ (p.sav.exists /\ p.zip.exists) => q.zip \in {p.sav, p.zip}
                /\ (p.sav.exists /\ ~p.zip.exists) => q.zip = p.sav

\* C3 witness: recovery found a sidecar larger than a partial target and put
\* the sidecar back.
C3_Witness ==
    /\ RecoveredCleanly
    /\ \E d \in DBset :
          /\ recPre[d].sav.exists
          /\ recPre[d].zip.exists
          /\ recPre[d].sav.size > recPre[d].zip.size
          /\ fs[d].zip = recPre[d].sav

\* The archive of database d is the one written and closed in this cycle.
NewArchiveAt(d) == fs[d].zip.exists /\ fs[d].zip.complete /\ fs[d].zip.gen = cycle

\* C4 as stated: an invocation ends committed or rolled back; when it is
\* committed the target holds the new archive and the sidecar is gone.
C4_CommitDeletesSidecar ==
    /\ (pc = "done" /\ wstate /= "clean") => wstate \in {"committed", "rolledback"}
    /\ wstate = "committed" => NewArchiveAt(last.db) /\ ~fs[last.db].sav.exists

\* Outcome of a writer invocation: committed or rolled back when Run has
\* returned or gone on to the next database; committed means the new archive
\* is at the target and, unless the ignored os.Remove failed, no sidecar;
\* rolled back means Run returns the error and, unless a call of the cleanup
\* failed, the new file is not at the target.
C4_Outcome ==
    /\ (pc = "done" /\ wstate /= "clean") => wstate \in {"committed", "rolledback"}
    /\ (pc = "stage" /\ idx > 1) => wstate = "committed"
    /\ wstate = "committed" =>
          /\ last.kind = "committed"
          /\ NewArchiveAt(last.db)
          /\ last.cleanOK => ~fs[last.db].sav.exists
    /\ wstate = "rolledback" =>
          /\ last.kind = "rolledback"
          /\ err
          /\ last.cleanOK => ~NewArchiveAt(last.db)

\* A step of the writer makes the sidecar of d disappear without renaming it
\* back to the target name.
SidecarDeleted(d) ==
    /\ pc \notin {"idle", "done"}
    /\ fs[d].sav.exists
    /\ ~fs'[d].sav.exists
    /\ fs'[d].zip /= fs[d].sav

\* C4 as amended: the outcome above, and the writer deletes a sidecar only
\* when the new container at the target has been finalized and closed.
C4_CommitThenDelete ==
    /\ []C4_Outcome
    /\ [][\A d \in DBset : SidecarDeleted(d) => NewArchiveAt(d)]_vars

\* C4 witness: an archive that existed was replaced and its sidecar removed.
C4_Witness ==
    /\ wstate = "committed"
    /\ preZip.exists
    /\ last.cleanOK
    /\ NewArchiveAt(last.db)
    /\ ~fs[last.db].sav.exists

\* What C5 says of a state: archives committed in this cycle are on disk
\* unchanged, and after a failed invocation the file that was at the target
\* is at the target or in the sidecar.
C5_Preserved ==
    /\ \A d \in DBset : committed[d].exists => fs[d].zip = committed[d]
    /\ (pc = "done" /\ last.kind = "rolledback" /\ preZip.exists) =>
           (fs[last.db].zip = preZip \/ fs[last.db].sav = preZip)

\* C5: a failure while one database is written leaves the archives committed
\* earlier in the cycle unchanged and does not destroy the previous file of the
\* failing database; a writer step touches the files of its own database only.
C5_FailureIsolation ==
    /\ []C5_Preserved
    /\ [][pc \notin {"idle", "done"} =>
             \A d \in DBset \ {dbs[idx]} : fs'[d] = fs[d]]_vars

\* The entry Run writes for d with the reload statement in every case.
EntryWithReload(d, n) ==
    DumpBytes(n) \o (IF d \in frags THEN <<"\n\n", "userBlock">> ELSE <<>>)
                 \o <<"\n\nFLUSH PRIVILEGES;\n">>

\* C6 as stated: every committed entry is the dump, then (with a grant
\* fragment) two newlines and the fragment, then two newlines and the reload
\* statement.
C6_EntryEndsWithReload ==
    \A d \in DBset : committed[d].exists =>
        \E n \in 0..MaxDump : committed[d].entry = EntryWithReload(d, n)

\* C6 as amended: a committed entry is the dump and, only for a database with
\* a grant fragment, two newlines, the fragment, two newlines and the reload
\* statement; without a fragment it is the dump alone.
C6_EntryContent ==
    \A d \in DBset : committed[d].exists =>
        \E n \in 0..MaxDump :
            committed[d].entry =
                DumpBytes(n) \o (IF d \in frags
                                 THEN <<"\n\n", "userBlock", "\n\nFLUSH PRIVILEGES;\n">>
                                 ELSE <<>>)

\* C6 witness: in one cycle an archive with the grant block and the reload
\* statement and an archive without either were committed.
C6_Witness ==
    /\ pc = "done"
    /\ committed[dbs[1]].exists
    /\ committed[dbs[2]].exists
    /\ dbs[1] \in frags
    /\ Len(committed[dbs[1]].entry) = produced + 3
    /\ committed[dbs[2]].entry = DumpBytes(produced)
    /\ produced > 0

-----------------------------------------------------------------------------
(* Claims about retention, checked under SpecRet.                          *)

\* The number of days of month m of year y, from the Gregorian rule.
DaysInMonth(y, m) ==
    IF m = 2
    THEN IF (y % 4 = 0 /\ y % 100 /= 0) \/ y % 400 = 0 THEN 29 ELSE 28
    ELSE IF m \in {4, 6, 9, 11} THEN 30 ELSE 31

\* The class the precedence yearly > monthly > weekly > daily gives the date
\* with the digits YYYYMMDD.
ExpectedClass(key) ==
    LET y == key \div 10000
        m == (key \div 100) % 100
        d == key % 100
    IN  IF m = 12 /\ d = 31 THEN "yearly"
        ELSE IF d = DaysInMonth(y, m) THEN "monthly"
        ELSE IF (Date(y, m, d) + 4) % 7 = 0 THEN "weekly"
        ELSE "daily"

\* C7: Classify gives every date exactly one class, with the precedence
\* yearly > monthly > weekly > daily: every line the status display or Apply
\* prints carries the class of that precedence, every name has one line, and
\* the five dates of TestClassify get yearly, monthly, monthly, weekly, daily.
C7_ClassifyPrecedence ==
    /\ \A line \in out : line[2] = ExpectedClass(line[1].key)
    /\ Cardinality({line[1] : line \in out}) = Cardinality(out)
    /\ Classify(Date(2025, 12, 31)) = "yearly"
    /\ Classify(Date(2025, 1, 31)) = "monthly"
    /\ Classify(Date(2025, 2, 28)) = "monthly"
    /\ Classify(Date(2025, 2, 2)) = "weekly"
    /\ Classify(Date(2025, 1, 15)) = "daily"

\* The status display has classified a month end that is a Sunday, a Sunday
\* that is no month end and a weekday.
C7_Witness ==
    /\ rphase = "status"
    /\ <<Artifact(Date(2024, 3, 31), dbs[1]), "monthly">> \in out
    /\ <<Artifact(Date(2024, 3, 24), dbs[1]), "weekly">> \in out
    /\ <<Artifact(Date(2024, 3, 25), dbs[1]), "daily">> \in out

\* C8: an artifact whose date lies within the last retainDaily days, today
\* included, is never deleted, whatever its class and the three other counts.
C8_DailyWindowKept ==
    dirst = "ok" =>
        \A z \in (today - retain.daily)..today : \A d \in DBset :
            z >= today - MaxAge => Artifact(z, d) \in files

\* Apply has run with retainDaily = 14 and the other counts 0: the artifact of
\* three days ago is there, the one of fifteen days ago is deleted.
C8_Witness ==
    /\ rphase = "apply"
    /\ dirst = "ok"
    /\ retain = [daily |-> TestRetainDaily, weekly |-> 0, monthly |-> 0, yearly |-> 0]
    /\ Artifact(today - 3, dbs[1]) \in files
    /\ Artifact(today - TestRetainDaily - 1, dbs[1]) \notin files

\* C9 as stated: for retainWeekly >= 1 the weekly keep-set of Apply is the
\* most recent Sunday on or before today and the retainWeekly - 1 Sundays
\* before it.
C9_WeeklyKeepSetPastSundays ==
    (rphase = "apply" /\ retain.weekly >= 1) =>
        kept.sundays = {dateKey(LastSunday(today) - 7 * i) : i \in 0..(retain.weekly - 1)}

\* C10 as stated: for retainMonthly >= 1 the monthly keep-set of Apply is the
\* end of the current month and the ends of the retainMonthly - 1 months before
\* it, retainMonthly distinct dates.
C10_MonthlyKeepSetConsecutive ==
    (rphase = "apply" /\ retain.monthly >= 1) =>
        /\ kept.monthEnds = {dateKey(Date(Year(today), Month(today) - i + 1, 1) - 1) :
                                i \in 0..(retain.monthly - 1)}
        /\ Cardinality(kept.monthEnds) = retain.monthly

\* The year of the most recent 31 December on or before the day z.
LastYearEndYear(z) == IF Month(z) = 12 /\ Day(z) = 31 THEN Year(z) ELSE Year(z) - 1

\* C11 as stated: for retainYearly >= 1 the yearly keep-set of Apply is the
\* retainYearly most recent 31 Decembers, none before the year 2000, and an
\* artifact dated on one of them is kept.
C11_YearlyKeepSetPastYearEnds ==
    (rphase = "apply" /\ retain.yearly >= 1) =>
        /\ kept.yearEnds = {dateKey(Date(LastYearEndYear(today) - i, 12, 31)) :
                               i \in 0..(retain.yearly - 1)}
        /\ \A key \in kept.yearEnds : key >= 20000101
        /\ \A i \in 0..(retain.yearly - 1) : \A d \in DBset :
              (dirst = "ok" /\ Date(LastYearEndYear(today) - i, 12, 31) >= today - MaxAge)
                  => Artifact(Date(LastYearEndYear(today) - i, 12, 31), d) \in files

\* The date of f is a member of a keep-set of the policy for today and the
\* counts: the most recent Sunday and the retainWeekly - 1 Sundays before it,
\* the end of the current month and the ends of the retainMonthly - 1 months
\* before it, the retainYearly most recent 31 Decembers.
InPolicyKeepSets(f) ==
    \E key \in {f.name.key} :
        \/ key \in {dateKey(LastSunday(today) - 7 * i) : i \in 0..(retain.weekly - 1)}
        \/ key \in {dateKey(Date(Year(today), Month(today) - i + 1, 1) - 1) :
                        i \in 0..(retain.monthly - 1)}
        \/ key \in {dateKey(Date(LastYearEndYear(today) - i, 12, 31)) :
                        i \in 0..(retain.yearly - 1)}

\* C12 as stated: of the artifacts the directory held, Apply deletes an
\* artifact if and only if its date is neither in the daily window
\* [today - retainDaily, today] nor in the weekly, monthly or yearly keep-set
\* of the policy.
C12_DeletedIffOutsidePolicy ==
    (rphase = "apply" /\ dirst = "ok") =>
        \E before \in {ListBackups(InitialFiles(today, dirst))} :
          \A f \in before :
            f.name \notin files
                <=> ~(f.date \in (today - retain.daily)..today \/ InPolicyKeepSets(f))

\* C13: an Apply that follows an Apply in which no removal failed, on the same
\* directory with the same counts and the same day, deletes nothing.
C13_ApplyIdempotent ==
    [][(rphase = "apply" /\ ~rerr /\ warned = {} /\ rphase' = "apply")
          => (files' = files /\ out' = {} /\ warned' = {} /\ ~rerr')]_vars

\* A second Apply has run after one that deleted the oldest artifact, and has
\* deleted nothing.
C13_Witness ==
    /\ rphase = "apply"
    /\ dirst = "ok"
    /\ retain = [daily |-> TestRetainDaily, weekly |-> 0, monthly |-> 0, yearly |-> 0]
    /\ Artifact(today - MaxAge, dbs[1]) \notin files
    /\ Artifact(today - MaxAge, dbs[2]) \notin files
    /\ out = {}
    /\ warned = {}

\* C14: after Apply on a directory that can be read or is missing no error is
\* returned; an artifact whose removal failed is logged and still there; every
\* other artifact that is not kept is deleted; on a missing or empty directory
\* nothing is deleted and nothing is logged.
C14_RemoveFailureSkipped ==
    (rphase = "apply" /\ dirst /= "denied") =>
        /\ ~rerr
        /\ warned \subseteq files
        /\ \A f \in ListBackups(files) : f.name \in warned \/ Keep(f, kept)
        /\ dirst \in {"empty", "missing"} => (files = {} /\ out = {} /\ warned = {})

\* Apply has run, the removal of the oldest artifact of the second database
\* failed, and artifacts of the first database of that and of a later date
\* were deleted.
C14_Witness ==
    /\ rphase = "apply"
    /\ dirst = "ok"
    /\ ~rerr
    /\ retain = [daily |-> TestRetainDaily, weekly |-> 0, monthly |-> 0, yearly |-> 0]
    /\ Artifact(today - MaxAge, dbs[2]) \in warned
    /\ Artifact(today - MaxAge, dbs[1]) \notin files
    /\ Artifact(today - MaxAge + 1, dbs[1]) \notin files

\* The names ListBackups accepts among the names of the two directories.
PrunerArtifacts == {f.name : f \in ListBackups(SyncNameSet)}

\* C15: a name without a calendar date is no artifact for Sync either: after a
\* Sync no such name was uploaded or deleted remotely, and listLocalBackups
\* and listRemote accept exactly the names ListBackups accepts.
C15_RecognitionUniform ==
    sphase = "sync" =>
        /\ (sup \cup sdel) \subseteq PrunerArtifacts
        /\ listLocalBackups(sloc) = {n \in PrunerArtifacts : sloc[n].exists}
        /\ listRemote(srem) = {n \in PrunerArtifacts : srem[n].exists}

\* The local artifacts the upload decision of the claim selects, given the
\* remote directory before the run.
ClaimedUploads ==
    {n \in SyncArtifacts :
        /\ sloc[n].exists
        /\ \/ ~srem[n].exists
           \/ sloc[n].mtime > srem[n].mtime
           \/ (encrypt /\ srem[n].exists /\ srem[n].size /= sloc[n].size + 32)}

\* C16: in every Sync that reaches the upload loop and returns no error the
\* local artifacts uploaded are exactly those without a remote entry of the
\* name, or newer than it, or (encryption on) whose remote size is not the
\* local size plus 32; in no Sync is any other local artifact uploaded.
C16_UploadDecision ==
    [][(sconf /\ sphase' = "sync") =>
          \E must \in {ClaimedUploads} :
            /\ (sup' \cap SyncArtifacts) \subseteq must
            /\ serr' = "none" => (sup' \cap SyncArtifacts) = must]_vars

\* An encrypting Sync has run without error: the first artifact was uploaded,
\* the second, whose remote entry has the size of an encrypted upload, was not.
C16_Witness ==
    /\ sphase = "sync" /\ serr = "none" /\ encrypt
    /\ sloc[SyncNames[1]].exists /\ sloc[SyncNames[3]].exists
    /\ SyncNames[1] \in sup
    /\ SyncNames[3] \notin sup
    /\ srem[SyncNames[1]].size = ArchiveSize + encryptionOverhead
    /\ srem[SyncNames[3]] = Entry(1, ArchiveSize + encryptionOverhead)

\* C17: in every Sync in which nothing fails, each remote artifact without a
\* local artifact of its name is deleted, no remote artifact with one is
\* deleted, and afterwards the remote directory holds the artifacts of exactly
\* the names the local directory holds.
C17_RemoteMirrorsLocal ==
    [][(sconf /\ sphase' = "sync" /\ serr' = "none" /\ swarn' = {}) =>
          /\ \A n \in SyncArtifacts :
                (srem[n].exists /\ ~sloc[n].exists) => (n \in sdel' /\ ~srem'[n].exists)
          /\ \A n \in SyncArtifacts :
                sloc[n].exists => (n \notin sdel' /\ srem'[n].exists)
          /\ {n \in SyncArtifacts : srem'[n].exists}
                = {n \in SyncArtifacts : sloc[n].exists}]_vars

\* The example of the specification: the first artifact is new locally and
\* was uploaded, the second is on both sides and was left alone, the third
\* was on the remote side only and was deleted there.
C17_Witness ==
    /\ sphase = "sync" /\ serr = "none" /\ swarn = {}
    /\ sloc[SyncNames[1]].exists /\ sloc[SyncNames[3]].exists
    /\ ~sloc[SyncNames[4]].exists
    /\ sup \cap SyncArtifacts = {SyncNames[1]}
    /\ \E t \in ServerTimes : srem[SyncNames[1]] = uploadFile(sloc[SyncNames[1]], encrypt, t)
    /\ srem[SyncNames[3]].exists /\ srem[SyncNames[3]].mtime <= MaxMTime
    /\ SyncNames[4] \in sdel
    /\ ~srem[SyncNames[4]].exists

\* C18 as stated: a Sync that follows a Sync that returned no error uploads
\* nothing and deletes nothing remotely.
C18_SecondSyncNoChange ==
    [][(sphase = "sync" /\ serr = "none" /\ sphase' = "sync")
          => (sup' = {} /\ sdel' = {})]_vars

\* C19: a Sync that fails to list, to dial or to open the session returns the
\* error and has changed nothing; one that fails in an upload returns the
\* error, has deleted nothing, and the uploads before it are in place; a
\* failed remote deletion returns no error, the entry is logged and still
\* there, and every other remote entry without a local one is deleted.
C19_SyncFailureSemantics ==
    [][(sconf /\ sphase' = "sync") =>
          /\ serr' \in {"list_local", "ssh_dial", "sftp", "list_remote"}
                => (srem' = srem /\ sup' = {} /\ sdel' = {} /\ swarn' = {})
          /\ serr' = "upload"
                => /\ sdel' = {} /\ swarn' = {}
                   /\ \A n \in SyncNameSet : srem[n].exists => srem'[n].exists
                   /\ \A n \in sup' :
                         \E t \in ServerTimes : srem'[n] = uploadFile(sloc[n], encrypt, t)
                   /\ \E n \in listLocalBackups(sloc) \ sup' :
                         \E how \in UploadFailures(encrypt) :
                         \E w \in PartialCopies(sloc[n], how), t \in ServerTimes :
                            srem'[n] = afterFailedUpload(srem[n], sloc[n], encrypt, how, w, t)
          /\ serr' = "none"
                => \A n \in listRemote(srem) \ listLocalBackups(sloc) :
                      \/ n \in swarn' /\ srem'[n] = srem[n]
                      \/ n \in sdel' /\ n \notin swarn' /\ ~srem'[n].exists]_vars

\* Sync has returned no error although the deletion of the first remote entry
\* failed: the entry is logged and still there, and a later one was deleted.
C19_Witness ==
    /\ sphase = "sync" /\ serr = "none"
    /\ swarn = {SyncNames[1]}
    /\ srem[SyncNames[1]].exists /\ ~sloc[SyncNames[1]].exists
    /\ SyncNames[4] \in sdel
    /\ ~srem[SyncNames[4]].exists

\* C20: after an upload and a download that returned no error, a file
\* uploaded with a password is salt, nonce and a ciphertext of the payload's
\* length, and downloaded with the same password it is the payload again,
\* whatever salt and nonce were drawn; an archive uploaded without a password
\* is downloaded unchanged; a download with another password yields bytes
\* that differ from a payload that is not empty.
C20_EncryptionRoundTrip ==
    (cphase = "got" /\ ~cuerr /\ ~cgerr) =>
        \E up \in {TrimSpace(cupass)}, dp \in {TrimSpace(cdpass)} :
          /\ up /= "" => Len(cremote) = saltLen + nonceLen + Len(cplain)
          /\ (up /= "" /\ dp = up) => clocal = cplain
          /\ (up = "" /\ Len(cplain) >= 2 /\ cplain[1] = ByteP /\ cplain[2] = ByteK)
                => clocal = cplain
          /\ (up /= "" /\ dp /= "" /\ dp /= up /\ cplain /= <<>>) => clocal /= cplain

\* C29: a Sync that returns the error of an upload has removed no remote
\* entry: every name the remote directory held before the run it still holds.
C29_NoDeletionAfterFailedUpload ==
    [][(sphase' = "sync" /\ serr' = "upload") =>
          /\ sdel' = {}
          /\ {n \in SyncNameSet : srem[n].exists}
                \subseteq {n \in SyncNameSet : srem'[n].exists}]_vars

\* Sync has returned the error of the second upload: the first upload is in
\* place and the remote artifact that has no local one is still there.
C29_Witness ==
    /\ sphase = "sync" /\ serr = "upload"
    /\ sup = {SyncNames[1]}
    /\ ~sloc[SyncNames[4]].exists /\ srem[SyncNames[4]].exists
    /\ sdel = {}

\* C25: whenever Run is about to enter step 1 of the writer for a database
\* (the rename of an existing target to its .sav name), no sidecar of that
\* target is in the directory.
C25_NoSidecarAtStage ==
    pc = "stage" => ~fs[dbs[idx]].sav.exists

\* C27: right after a recoverSavFiles in which no call failed, another
\* recoverSavFiles, whatever its calls do, leaves the directory as it is;
\* and a recoverSavFiles, failed calls or not, leaves the files of a target
\* without a sidecar as they were.
C27_RecoveryIdempotent ==
    (pc = "stage" /\ idx = 1) =>
        /\ recClean =>
              \A readOK \in BOOLEAN, modes \in [DBset -> RecModes] :
                 recoverSavFiles(fs, readOK, modes) = fs
        /\ \A d \in DBset : ~recPre[d].sav.exists => fs[d] = recPre[d]

\* Recovery has just run without a failed call on a directory with a sidecar
\* that had no target, and with a target of the other database that had no
\* sidecar: the sidecar is at the target name, the other target is untouched.
C27_Witness ==
    /\ RecoveredCleanly
    /\ recPre[dbs[1]].sav.exists /\ ~recPre[dbs[1]].zip.exists
    /\ fs[dbs[1]] = [zip |-> recPre[dbs[1]].sav, sav |-> NoFile]
    /\ recPre[dbs[2]].zip.exists /\ ~recPre[dbs[2]].sav.exists
    /\ fs[dbs[2]] = recPre[dbs[2]]

\* C24: the steps of a cycle start in the order Run, retention, remote step;
\* retention starts only when Run has committed the archive of every database
\* and they are in the directory; when Run returned an error no other step
\* starts; and the names the remote step worked on are the artifacts of the
\* directory as retention left it.
C24_CycleOrder ==
    /\ ysteps \in {<<>>, <<"run">>, <<"run", "apply">>, <<"run", "apply", "remote">>}
    /\ Len(ysteps) >= 2 =>
          {ycreated[i] : i \in 1..Len(ycreated)} = {Artifact(yrunDay, d) : d \in DBset}
    /\ ypc = "written" => \A d \in DBset : ylocal[Artifact(yrunDay, d)].exists
    /\ yerr \in {"early", "backup"} => Len(ysteps) <= 1
    /\ (ypc = "done" /\ Len(ysteps) = 3 /\ yconf /= "off")
          => ylisted = listLocalBackups(ylocal)

\* C28 as stated: once retention has run in a cycle, the archives Run wrote
\* in that cycle are in the directory, whatever the four counts are.
C28_NewArchivesSurvive ==
    Len(ysteps) >= 2 => \A d \in DBset : ylocal[Artifact(yrunDay, d)].exists

\* C28: Apply removes no artifact dated the day it takes as today, whatever
\* the four counts are; the archives of the cycle survive it when that day is
\* the day Run named them with, or when retainDaily is at least 1.
C28_TodayKept ==
    [][(ypc = "written" /\ ypc' = "pruned") =>
          /\ \A n \in CycleNameSet :
                (ylocal[n].exists /\ ParseDate(n.key).t = ynow') => ylocal'[n].exists
          /\ (ynow' = yrunDay \/ yretain.daily >= 1)
                => \A d \in DBset : ylocal'[Artifact(yrunDay, d)].exists]_vars

\* Apply has run on the day of Run with all four counts 0: the archives of
\* the cycle are there, the artifacts of the day before are removed.
C28_Witness ==
    /\ ypc = "pruned"
    /\ ynow = yrunDay
    /\ yretain = [daily |-> 0, weekly |-> 0, monthly |-> 0, yearly |-> 0]
    /\ \A d \in DBset : ylocal[Artifact(yrunDay, d)].exists
    /\ \A d \in DBset : ~ylocal[Artifact(yrunDay - 1, d)].exists

\* C30: restoreZip never stops short of its return, whatever the order of the
\* copier's and the import's steps, and when the import fails before it has
\* read the whole entry (and the archive reader did not fail) restoreZip
\* returns the import's error, not the error of the closed pipe.
C30_ImportErrorReturned ==
    /\ (pmain /= "done" => ENABLED NextPipe)
    /\ (pmain = "done" /\ pimport = "import" /\ pconsumed < ptotal /\ pcopyRes /= "read"
            => pret = "import")

\* What the export says, read off its lines.
LinesOf(n) == {i \in 1..Len(uin) : uin[i].kind /= "other" /\ uin[i].name = n}
HoldsGrantOn(n, d) ==
    \E i \in LinesOf(n) : uin[i].kind = "grant" /\ uin[i].db = d
HashLines(n, h) == {i \in LinesOf(n) : uin[i].host = h /\ uin[i].hash /= ""}
FirstOf(S) == CHOOSE i \in S : \A j \in S : i <= j
FirstHash(n, h) ==
    IF HashLines(n, h) = {} THEN "" ELSE uin[FirstOf(HashLines(n, h))].hash
NameHashLines(n) == UNION {HashLines(n, h) : h \in HostNames}
FirstHashOfName(n) ==
    IF NameHashLines(n) = {} THEN "" ELSE uin[FirstOf(NameHashLines(n))].hash
Statements(d) == {uout.dbToSQL[d][i] : i \in 1..Len(uout.dbToSQL[d])}
Creations(d) == {s \in Statements(d) : s.stmt /= "GRANT"}

\* C21: the fragment of database D holds only grant lines on D, creation
\* statements only of accounts (user names) with a grant on D in the export,
\* and every creation statement has the form CREATE USER IF NOT EXISTS.
C21_FragmentsKeepDatabasesApart ==
    uph = "done" =>
        \A d \in DBset : \A s \in Statements(d) :
            /\ s.stmt = "GRANT" => s.db = d
            /\ s.stmt /= "GRANT" =>
                    s.stmt = "CREATE USER IF NOT EXISTS" /\ HoldsGrantOn(s.name, d)

\* u1 has a grant on db1 only, u2 on db1 and db2: db1 creates both, db2 only u2.
C21_Witness ==
    /\ uph = "done"
    /\ HoldsGrantOn("u1", "db1") /\ ~HoldsGrantOn("u1", "db2")
    /\ HoldsGrantOn("u2", "db1") /\ HoldsGrantOn("u2", "db2")
    /\ {s.name : s \in Creations("db1")} = {"u1", "u2"}
    /\ {s.name : s \in Creations("db2")} = {"u2"}
    /\ \E s \in Statements("db2") : s.stmt = "GRANT" /\ s.db = "db2"

\* C22: an account (user name) of the export without a database-scoped grant
\* is in no fragment, as creation or as grant, and no fragment holds a grant
\* on all databases.
C22_GlobalOnlyOmitted ==
    uph = "done" =>
        /\ \A n \in UserNames :
              (\A d \in DBset : ~HoldsGrantOn(n, d)) =>
                  \A d \in FragmentKeys : \A s \in Statements(d) : s.name /= n
        /\ \A d \in FragmentKeys : \A s \in Statements(d) : s.db /= Wildcard

\* u2 has a creation line and a grant on all databases only, u1 a grant on
\* db1: the fragment of db1 is written and u2 is not in it.
C22_Witness ==
    /\ uph = "done"
    /\ \E i \in LinesOf("u2") : uin[i].kind = "create"
    /\ HoldsGrantOn("u2", Wildcard)
    /\ \A d \in DBset : ~HoldsGrantOn("u2", d)
    /\ \E s \in Statements("db1") : s.name = "u1" /\ s.stmt = "GRANT"

\* C23: for every user and host the hash of the first line that gave one is
\* the one recorded; when two lines of the same user and host give different
\* hashes a warning names them; and every grant line of the export is
\* recorded, also after such a conflict.
C23_FirstHashRetained ==
    uph = "done" =>
        \A n \in UserNames :
            /\ \A h \in HostNames :
                  /\ uusers[n].pwByHost[h] = FirstHash(n, h)
                  /\ (\E i, j \in HashLines(n, h) : uin[i].hash /= uin[j].hash) =>
                        \E k \in 1..Len(uout.warns) :
                            uout.warns[k] = [msg |-> "err.user_differing_password",
                                             name |-> n, host |-> h]
            /\ Len(uusers[n].grants) =
                  Cardinality({i \in LinesOf(n) : uin[i].kind = "grant"})

\* Two lines give the same user and host different hashes and a grant line
\* follows them; the grant is in the fragment.
C23_Witness ==
    /\ uph = "done"
    /\ \E n \in UserNames, h \in HostNames :
         \E i, j \in HashLines(n, h), k \in LinesOf(n) :
            /\ i < j /\ j < k
            /\ uin[i].hash /= uin[j].hash
            /\ uin[k].kind = "grant"
            /\ uin[k].db \in DBset
            /\ \E s \in Statements(uin[k].db) : s.stmt = "GRANT" /\ s.name = n

\* C26 as stated: the creation statement of account A at host H carries the
\* hash the export recorded for A at H, and none when no line gave one.
C26_CreationCarriesHostHash ==
    uph = "done" =>
        \A d \in FragmentKeys : \A s \in Creations(d) :
            s.hash = FirstHash(s.name, s.host)

\* C26, amended: every creation statement of account A, for whatever host,
\* carries the first hash any line of A gave, and none when no line of A gave
\* one; when two hosts of A have different hashes and A is in a fragment, a
\* warning names A.
C26_CreationCarriesFirstHash ==
    uph = "done" =>
        /\ \A d \in FragmentKeys : \A s \in Creations(d) :
              s.hash = FirstHashOfName(s.name)
        /\ \A n \in UserNames :
              (/\ \E d \in DBset : HoldsGrantOn(n, d)
               /\ \E h1, h2 \in HostNames :
                     /\ FirstHash(n, h1) /= ""
                     /\ FirstHash(n, h2) /= ""
                     /\ FirstHash(n, h1) /= FirstHash(n, h2))
              => \E k \in 1..Len(uout.warns) :
                    uout.warns[k] = [msg |-> "log.warn.user_different_passwords",
                                     name |-> n, host |-> ""]

\* One account with two hosts and a different hash for each, created in a
\* fragment for both hosts.
C26_Witness ==
    /\ uph = "done"
    /\ \E n \in UserNames, d \in DBset :
          /\ \A h \in HostNames : FirstHash(n, h) /= ""
          /\ \E h1, h2 \in HostNames : FirstHash(n, h1) /= FirstHash(n, h2)
          /\ {s.host : s \in {c \in Creations(d) : c.name = n}} = HostNames

=============================================================================
